---------------------------- MODULE Spec2Model ----------------------------
(***************************************************************************)
(* A model of the shardjs interpreter: lexer (src/lexer.c), recursive      *)
(* descent parser (src/parser.c), AST (src/ast.c, src/include/runtime.h),  *)
(* variable environment (src/env.c), tree-walking evaluator                *)
(* (src/interpreter.c) and the command-line pipeline (src/main.c).         *)
(*                                                                         *)
(* Conventions.                                                            *)
(*  - A C string is a sequence of one-character strings; the terminating   *)
(*    NUL is the value NUL.                                                *)
(*  - A double is an exact rational [n |-> numerator, d |-> denominator]   *)
(*    in lowest terms with d > 0.  Rounding, infinities and NaN are not    *)
(*    modelled; the inputs are small enough that every result of the C     *)
(*    program on them is exact, except the inexact quotients, which the    *)
(*    model keeps exact.                                                   *)
(*  - A pointer to an AST node is the node itself; the NULL pointer is     *)
(*    NULL.  Inside interpret a node is identified by its path from the    *)
(*    root of the top-level call (the sequence of child indexes).          *)
(***************************************************************************)
EXTENDS Integers, Sequences, FiniteSets, TLC

(***************************************************************************)
(* Doubles                                                                 *)
(***************************************************************************)
Abs(i) == IF i < 0 THEN -i ELSE i

RECURSIVE GCD(_, _)
GCD(a, b) == IF b = 0 THEN a ELSE GCD(b, a % b)

\* The rational n/d (d # 0) in lowest terms with a positive denominator.
Rat(n, d) ==
    LET s == IF d < 0 THEN -1 ELSE 1
        g == GCD(Abs(n), Abs(d))
    IN  [n |-> (s * n) \div g, d |-> (s * d) \div g]

Num(i) == [n |-> i, d |-> 1]
Zero == Num(0)
One == Num(1)

DAdd(l, r) == Rat(l.n * r.d + r.n * l.d, l.d * r.d)
DSub(l, r) == Rat(l.n * r.d - r.n * l.d, l.d * r.d)
DMul(l, r) == Rat(l.n * r.n, l.d * r.d)
DDiv(l, r) == Rat(l.n * r.d, l.d * r.n)

(***************************************************************************)
(* Characters (ctype.h in the C locale)                                    *)
(***************************************************************************)
NUL == "NUL"
\* The NULL pointer to a struct, and the NULL char pointer.
NULL == [type |-> "NULL"]
NULL_TEXT == <<"NULL">>

Digits == {"0", "1", "2", "3", "4", "5", "6", "7", "8", "9"}
Letters ==
    {"a", "b", "c", "d", "e", "f", "g", "h", "i", "j", "k", "l", "m",
     "n", "o", "p", "q", "r", "s", "t", "u", "v", "w", "x", "y", "z",
     "A", "B", "C", "D", "E", "F", "G", "H", "I", "J", "K", "L", "M",
     "N", "O", "P", "Q", "R", "S", "T", "U", "V", "W", "X", "Y", "Z"}
isdigit(c) == c \in Digits
isalpha(c) == c \in Letters
isalnum(c) == isalpha(c) \/ isdigit(c)
isspace(c) == c \in {" ", "\t", "\n", "\r", "\f"}

DigitVal(c) ==
    CASE c = "0" -> 0 [] c = "1" -> 1 [] c = "2" -> 2 [] c = "3" -> 3
      [] c = "4" -> 4 [] c = "5" -> 5 [] c = "6" -> 6 [] c = "7" -> 7
      [] c = "8" -> 8 [] c = "9" -> 9

RECURSIVE Pow10(_)
Pow10(k) == IF k = 0 THEN 1 ELSE 10 * Pow10(k - 1)

\* The value of a run of decimal digits.
RECURSIVE DigitsToNat(_)
DigitsToNat(s) ==
    IF s = <<>> THEN 0
    ELSE 10 * DigitsToNat(SubSeq(s, 1, Len(s) - 1)) + DigitVal(s[Len(s)])

\* The index of the first "." of s, or 0.
RECURSIVE DotIndex(_, _)
DotIndex(s, i) ==
    IF i > Len(s) THEN 0 ELSE IF s[i] = "." THEN i ELSE DotIndex(s, i + 1)

\* atof on the texts lexer_read_number builds: digits, or digits "." digits.
atof(buffer) ==
    LET dot == DotIndex(buffer, 1)
    IN  IF dot = 0 THEN Num(DigitsToNat(buffer))
        ELSE LET ip == SubSeq(buffer, 1, dot - 1)
                 fp == SubSeq(buffer, dot + 1, Len(buffer))
             IN  Rat(DigitsToNat(ip) * Pow10(Len(fp)) + DigitsToNat(fp),
                     Pow10(Len(fp)))

(***************************************************************************)
(* Lexer (src/lexer.c)                                                     *)
(***************************************************************************)
BufferCap == 63
\* char buffer[64] of lexer_read_number and lexer_read_identifier
BufferSize == 64

lexer_create(source) ==
    [source |-> source, position |-> 0, length |-> Len(source),
     current_char |-> IF Len(source) > 0 THEN source[1] ELSE NUL,
     line |-> 1, column |-> 1]

\* A faulty lexer_advance: a newline moves the column like any character.
lexer_advance_no_newline(lexer) ==
    IF lexer.position < lexer.length
    THEN [lexer EXCEPT
             !.column = @ + 1,
             !.position = @ + 1,
             !.current_char = IF lexer.position + 1 < lexer.length
                              THEN lexer.source[lexer.position + 2] ELSE NUL]
    ELSE lexer

lexer_advance(lexer) ==
    IF lexer.position < lexer.length
    THEN LET position == lexer.position + 1
         IN  [lexer EXCEPT
                 !.line = IF lexer.current_char = "\n" THEN @ + 1 ELSE @,
                 !.column = IF lexer.current_char = "\n" THEN 1 ELSE @ + 1,
                 !.position = position,
                 !.current_char = IF position < lexer.length
                                  THEN lexer.source[position + 1] ELSE NUL]
    ELSE lexer

lexer_peek(lexer) ==
    LET next_pos == lexer.position + 1
    IN  IF next_pos < lexer.length THEN lexer.source[next_pos + 1] ELSE NUL

RECURSIVE lexer_skip_whitespace(_)
lexer_skip_whitespace(lexer) ==
    IF lexer.current_char # NUL /\ isspace(lexer.current_char)
    THEN lexer_skip_whitespace(lexer_advance(lexer))
    ELSE lexer

create_token(type, line, column) ==
    [type |-> type, number |-> Zero, text |-> NULL_TEXT,
     line |-> line, column |-> column]

create_number_token(value, line, column) ==
    [create_token("TOKEN_NUMBER", line, column) EXCEPT !.number = value]

create_text_token(type, text, line, column) ==
    [create_token(type, line, column) EXCEPT !.text = text]

\* The two digit loops of lexer_read_number: [buffer, lexer] after the loop.
RECURSIVE ReadDigits(_, _)
ReadDigits(lexer, buffer) ==
    IF lexer.current_char # NUL /\ isdigit(lexer.current_char)
       /\ Len(buffer) < BufferCap
    THEN ReadDigits(lexer_advance(lexer), Append(buffer, lexer.current_char))
    ELSE [buffer |-> buffer, lexer |-> lexer]

\* A faulty ReadFraction: the '.' is taken whatever follows it.
ReadFraction_any(a) ==
    IF a.lexer.current_char = "."
    THEN ReadDigits(lexer_advance(a.lexer), Append(a.buffer, "."))
    ELSE a

\* lexer_read_number after the digits before the decimal point
ReadFraction(a) ==
    IF a.lexer.current_char = "." /\ isdigit(lexer_peek(a.lexer))
    THEN ReadDigits(lexer_advance(a.lexer), Append(a.buffer, "."))
    ELSE a

\* lexer_read_number after both loops: buffer[pos] = 0, atof, the token.
\* written: the bytes of buffer the call wrote, buffer[0] .. buffer[pos].
NumberToken(b, line, column) ==
    [token |-> create_number_token(atof(b.buffer), line, column),
     lexer |-> b.lexer, written |-> Len(b.buffer) + 1]

lexer_read_number(lexer) ==
    NumberToken(ReadFraction(ReadDigits(lexer, <<>>)), lexer.line, lexer.column)

RECURSIVE ReadIdentChars(_, _)
ReadIdentChars(lexer, buffer) ==
    IF lexer.current_char # NUL
       /\ (isalnum(lexer.current_char) \/ lexer.current_char = "_")
       /\ Len(buffer) < BufferCap
    THEN ReadIdentChars(lexer_advance(lexer), Append(buffer, lexer.current_char))
    ELSE [buffer |-> buffer, lexer |-> lexer]

\* lexer_read_identifier after the loop: the keyword check and the token
IdentifierToken(a, line, column) ==
    [token |-> IF a.buffer = <<"l", "e", "t">>
               THEN create_token("TOKEN_LET", line, column)
               ELSE create_text_token("TOKEN_IDENTIFIER", a.buffer, line, column),
     lexer |-> a.lexer, written |-> Len(a.buffer) + 1]

lexer_read_identifier(lexer) ==
    IdentifierToken(ReadIdentChars(lexer, <<>>), lexer.line, lexer.column)

\* A faulty OperatorToken: the character after ch is never looked at.
OperatorToken_single(ch, lexer, line, column) ==
    [token |-> create_token(CASE ch = "=" -> "TOKEN_ASSIGN"
                              [] ch = ">" -> "TOKEN_GREATER"
                              [] ch = "<" -> "TOKEN_LESS"
                              [] ch = "+" -> "TOKEN_PLUS"
                              [] ch = "-" -> "TOKEN_MINUS"
                              [] ch = "*" -> "TOKEN_MULTIPLY"
                              [] ch = "/" -> "TOKEN_DIVIDE"
                              [] ch = "(" -> "TOKEN_LPAREN"
                              [] ch = ")" -> "TOKEN_RPAREN"
                              [] ch = ";" -> "TOKEN_SEMICOLON"
                              [] OTHER -> "TOKEN_ERROR", line, column),
     lexer |-> lexer, written |-> 0]

\* A faulty OperatorToken: a character that starts no token takes the
\* character after it along.
OperatorToken_error_two(ch, lexer, line, column) ==
    IF ch \in {"&", ".", "@", "#"}
    THEN [token |-> create_token("TOKEN_ERROR", line, column),
          lexer |-> lexer_advance(lexer), written |-> 0]
    ELSE OperatorToken_single(ch, lexer, line, column)

\* The operator switch of lexer_next_token: ch was consumed, lexer is past it.
OperatorToken(ch, lexer, line, column) ==
    LET one(t) == [token |-> create_token(t, line, column), lexer |-> lexer,
                   written |-> 0]
        two(t) == [token |-> create_token(t, line, column),
                   lexer |-> lexer_advance(lexer), written |-> 0]
        eq == lexer.current_char = "="
    IN  CASE ch = "+" -> one("TOKEN_PLUS")
          [] ch = "-" -> one("TOKEN_MINUS")
          [] ch = "*" -> one("TOKEN_MULTIPLY")
          [] ch = "/" -> one("TOKEN_DIVIDE")
          [] ch = "=" -> IF eq THEN two("TOKEN_EQUAL") ELSE one("TOKEN_ASSIGN")
          [] ch = ">" -> IF eq THEN two("TOKEN_GREATER_EQUAL")
                         ELSE one("TOKEN_GREATER")
          [] ch = "<" -> IF eq THEN two("TOKEN_LESS_EQUAL") ELSE one("TOKEN_LESS")
          [] ch = "!" -> IF eq THEN two("TOKEN_NOT_EQUAL") ELSE one("TOKEN_ERROR")
          [] ch = "(" -> one("TOKEN_LPAREN")
          [] ch = ")" -> one("TOKEN_RPAREN")
          [] ch = ";" -> one("TOKEN_SEMICOLON")
          [] OTHER -> one("TOKEN_ERROR")

\* A faulty NextToken: returning TOKEN_EOF moves the column on.
NextToken_eof_moves(lexer) ==
    IF lexer.current_char = NUL
    THEN [token |-> create_token("TOKEN_EOF", lexer.line, lexer.column),
          lexer |-> [lexer EXCEPT !.column = @ + 1], written |-> 0]
    ELSE IF isdigit(lexer.current_char) THEN lexer_read_number(lexer)
    ELSE IF isalpha(lexer.current_char) \/ lexer.current_char = "_"
    THEN lexer_read_identifier(lexer)
    ELSE OperatorToken(lexer.current_char, lexer_advance(lexer),
                       lexer.line, lexer.column)

\* A faulty NextToken: a character that starts no token is not consumed.
NextToken_error_stays(lexer) ==
    IF lexer.current_char = NUL
    THEN [token |-> create_token("TOKEN_EOF", lexer.line, lexer.column),
          lexer |-> lexer, written |-> 0]
    ELSE IF isdigit(lexer.current_char) THEN lexer_read_number(lexer)
    ELSE IF isalpha(lexer.current_char) \/ lexer.current_char = "_"
    THEN lexer_read_identifier(lexer)
    ELSE IF lexer.current_char \in {"&", "."}
    THEN [token |-> create_token("TOKEN_ERROR", lexer.line, lexer.column),
          lexer |-> lexer, written |-> 0]
    ELSE OperatorToken(lexer.current_char, lexer_advance(lexer),
                       lexer.line, lexer.column)

\* lexer_next_token after lexer_skip_whitespace
NextToken(lexer) ==
    IF lexer.current_char = NUL
    THEN [token |-> create_token("TOKEN_EOF", lexer.line, lexer.column),
          lexer |-> lexer, written |-> 0]
    ELSE IF isdigit(lexer.current_char) THEN lexer_read_number(lexer)
    ELSE IF isalpha(lexer.current_char) \/ lexer.current_char = "_"
    THEN lexer_read_identifier(lexer)
    ELSE OperatorToken(lexer.current_char, lexer_advance(lexer),
                       lexer.line, lexer.column)

lexer_next_token(lexer) == NextToken(lexer_skip_whitespace(lexer))

(***************************************************************************)
(* AST (src/ast.c, src/include/runtime.h)                                  *)
(***************************************************************************)
ast_create_number(value) == [type |-> "AST_NUMBER", number |-> value]

ast_create_identifier(name) == [type |-> "AST_IDENTIFIER", identifier |-> name]

ast_create_binary_op(left, operator, right) ==
    [type |-> "AST_BINARY_OP", left |-> left, right |-> right,
     operator |-> operator]

ast_create_let_decl(name, value) ==
    [type |-> "AST_LET_DECL", name |-> name, value |-> value]

ast_create_print_call(arg) == [type |-> "AST_PRINT_CALL", print_arg |-> arg]

ast_create_program == [type |-> "AST_PROGRAM", statements |-> <<>>, capacity |-> 0]

\* Declared in runtime.h and called by the tests; ast.c does not define it.
ast_create_if_stmt(condition, if_branch, else_branch) ==
    [type |-> "AST_IF_STMT", condition |-> condition, if_branch |-> if_branch,
     else_branch |-> else_branch]

\* count is Len(statements).
ast_program_add_statement(program, statement) ==
    LET full == Len(program.statements) >= program.capacity
        new_capacity == IF program.capacity = 0 THEN 4 ELSE program.capacity * 2
    IN  [program EXCEPT !.statements = Append(@, statement),
                        !.capacity = IF full THEN new_capacity ELSE @]

(***************************************************************************)
(* Memory: malloc, strdup, realloc and free as src/ast.c and src/parser.c  *)
(* call them.  A heap holds the blocks that are live, the number of        *)
(* allocation calls made so far, the allocation call that returns NULL     *)
(* (fail_at, 0 when every call succeeds), the block that call was for, and *)
(* the number of frees of a block that was not live.  A block is known by  *)
(* what it holds.  The memory of the Lexer and of the Parser struct is    *)
(* not followed; the token texts are followed apart, in the Parser, and    *)
(* their allocations do not count among the calls that may fail.           *)
(***************************************************************************)
NewHeap(fail_at) ==
    [live |-> <<>>, calls |-> 0, fail_at |-> fail_at, failed |-> NULL,
     bad_free |-> 0]

\* The block of an ASTNode.  A Program is written to after its allocation,
\* so that its block does not hold its statements.
NodeBlock(node) ==
    IF node.type = "AST_PROGRAM" THEN [type |-> "AST_PROGRAM"] ELSE node

\* The block of strdup(name) in ast_create_identifier and ast_create_let_decl
NameBlock(name) == [type |-> "name", text |-> name]

\* The block of strdup(parser->current_token.text) in the parser
CopyBlock(text) == [type |-> "copy", text |-> text]

\* The block of program->data.program.statements
StatementsBlock == [type |-> "statements"]

\* The next allocation call returns NULL.
AllocFails(heap) == heap.calls + 1 = heap.fail_at

malloc(heap, block) ==
    IF AllocFails(heap)
    THEN [heap EXCEPT !.calls = @ + 1, !.failed = block]
    ELSE [heap EXCEPT !.calls = @ + 1, !.live = Append(@, block)]

IsLive(heap, block) == \E i \in DOMAIN heap.live : heap.live[i] = block

RECURSIVE Without(_, _)
\* The blocks without the first one equal to block
Without(blocks, block) ==
    IF blocks = <<>> THEN <<>>
    ELSE IF Head(blocks) = block THEN Tail(blocks)
    ELSE <<Head(blocks)>> \o Without(Tail(blocks), block)

\* free(NULL) does nothing.
free(heap, block) ==
    IF block = NULL THEN heap
    ELSE IF IsLive(heap, block) THEN [heap EXCEPT !.live = Without(@, block)]
    ELSE [heap EXCEPT !.bad_free = @ + 1]

\* ASTNode *node = malloc(sizeof(ASTNode)); if (!node) return NULL;
ast_alloc(heap, node) ==
    [node |-> IF AllocFails(heap) THEN NULL ELSE node,
     heap |-> malloc(heap, NodeBlock(node))]

\* ast_create_identifier and ast_create_let_decl after the malloc gave m:
\* the strdup of the name, and free(node) when it fails
ast_alloc_name(m, node, name) ==
    IF m.node = NULL THEN m
    ELSE IF AllocFails(m.heap)
    THEN [node |-> NULL,
          heap |-> free(malloc(m.heap, NameBlock(name)), NodeBlock(node))]
    ELSE [node |-> node, heap |-> malloc(m.heap, NameBlock(name))]

\* The call of the constructor of ast.c that fills in node: the node it
\* returns, NULL when an allocation fails, and the heap it leaves behind.
Create(heap, node) ==
    IF node.type = "AST_IDENTIFIER"
    THEN ast_alloc_name(ast_alloc(heap, node), node, node.identifier)
    ELSE IF node.type = "AST_LET_DECL"
    THEN ast_alloc_name(ast_alloc(heap, node), node, node.name)
    ELSE ast_alloc(heap, node)

\* if (program->data.program.count >= program->data.program.capacity)
ProgramFull(program) == Len(program.statements) >= program.capacity

\* realloc(program->data.program.statements, ...) that succeeds: the first
\* one allocates the array, a later one moves it.
realloc(heap, program) ==
    IF program.capacity = 0 THEN malloc(heap, StatementsBlock)
    ELSE [heap EXCEPT !.calls = @ + 1]

\* ast_program_add_statement with its realloc: 0 when the realloc fails
add_statement(heap, program, statement) ==
    IF ProgramFull(program) /\ AllocFails(heap)
    THEN [ok |-> 0, program |-> program,
          heap |-> malloc(heap, StatementsBlock)]
    ELSE [ok |-> 1, program |-> ast_program_add_statement(program, statement),
          heap |-> IF ProgramFull(program) THEN realloc(heap, program)
                   ELSE heap]

RECURSIVE ast_destroy(_, _), DestroyStatements(_, _)

\* The loop of ast_destroy over the statements of a Program
DestroyStatements(heap, statements) ==
    IF statements = <<>> THEN heap
    ELSE DestroyStatements(ast_destroy(heap, Head(statements)),
                           Tail(statements))

\* The switch of ast_destroy.  It has no case for AST_IF_STMT.
DestroyChildren(heap, node) ==
    CASE node.type = "AST_IDENTIFIER" ->
            free(heap, NameBlock(node.identifier))
      [] node.type = "AST_BINARY_OP" ->
            ast_destroy(ast_destroy(heap, node.left), node.right)
      [] node.type = "AST_LET_DECL" ->
            ast_destroy(free(heap, NameBlock(node.name)), node.value)
      [] node.type = "AST_PRINT_CALL" -> ast_destroy(heap, node.print_arg)
      [] node.type = "AST_PROGRAM" ->
            free(DestroyStatements(heap, node.statements),
                 IF node.capacity = 0 THEN NULL ELSE StatementsBlock)
      [] OTHER -> heap

ast_destroy(heap, node) ==
    IF node = NULL THEN heap
    ELSE free(DestroyChildren(heap, node), NodeBlock(node))

(***************************************************************************)
(* Parser (src/parser.c)                                                   *)
(*                                                                         *)
(* A parsing function returns [node, parser, heap]: the ASTNode* it        *)
(* returns, the Parser and the heap it leaves behind.  Four fields of a     *)
(* Parser are a history of the run that the struct does not hold: errors,  *)
(* the number of executions of parser_error on it; advances, the number of *)
(* executions of parser_advance; iterations, one entry per iteration of    *)
(* the statement loop of parser_parse; texts, the memory of the texts of   *)
(* the tokens the lexer handed to it.                                      *)
(***************************************************************************)
\* The block create_text_token allocates for the text of a token.  No two
\* tokens of a source start at the same line and column, so a block stands
\* for one malloc call.
TextBlock(token) ==
    [type |-> "text", text |-> token.text, line |-> token.line,
     column |-> token.column]

\* The memory of the token texts: every block handed to the Parser, every
\* block passed to free, and the reads of a text that was freed before.
NoTexts == [allocated |-> <<>>, freed |-> <<>>, stale_reads |-> 0]

\* A token returned by lexer_next_token: create_text_token has allocated its
\* text, if it has one
Handed(texts, token) ==
    IF token.text = NULL_TEXT THEN texts
    ELSE [texts EXCEPT !.allocated = Append(@, TextBlock(token))]

\* token_free: if (token && token->text) { free(token->text); text = NULL }
token_free(texts, token) ==
    IF token.text # NULL_TEXT
    THEN [texts |-> [texts EXCEPT !.freed = Append(@, TextBlock(token))],
          token |-> [token EXCEPT !.text = NULL_TEXT]]
    ELSE [texts |-> texts, token |-> token]

\* Has the block been passed to free?
IsFreed(texts, block) == \E i \in 1..Len(texts.freed) : texts.freed[i] = block

\* parser_create after the two lexer_next_token calls
PrimedParser(first, second) ==
    [lexer |-> second.lexer, current_token |-> first.token,
     lookahead_token |-> second.token, has_error |-> 0,
     error_message |-> NULL, errors |-> 0, advances |-> 0,
     iterations |-> <<>>,
     texts |-> Handed(Handed(NoTexts, first.token), second.token)]

\* parser_create after the first lexer_next_token call
PrimeSecond(first) == PrimedParser(first, lexer_next_token(first.lexer))

parser_create(lexer) == PrimeSecond(lexer_next_token(lexer))

\* parser_destroy after the two token_free calls gave c and l; free(parser)
DestroyedParser(parser, c, l) ==
    [parser EXCEPT !.current_token = c.token,
                   !.lookahead_token = l.token,
                   !.texts = l.texts]

\* parser_destroy after token_free(&parser->current_token) gave c
DestroyLookahead(parser, c) ==
    DestroyedParser(parser, c, token_free(c.texts, parser.lookahead_token))

\* A faulty parser_destroy: the lookahead token is not freed.
parser_destroy_current_only(parser) ==
    DestroyedParser(parser, token_free(parser.texts, parser.current_token),
                    [texts |-> token_free(parser.texts,
                                          parser.current_token).texts,
                     token |-> parser.lookahead_token])

parser_destroy(parser) ==
    IF parser = NULL THEN parser
    ELSE DestroyLookahead(parser,
                          token_free(parser.texts, parser.current_token))

\* parser_advance after token_free(&parser->current_token) gave f and
\* lexer_next_token gave next
ShiftTokens(parser, f, next) ==
    [parser EXCEPT !.current_token = parser.lookahead_token,
                   !.lookahead_token = next.token,
                   !.lexer = next.lexer,
                   !.texts = Handed(f.texts, next.token),
                   !.advances = @ + 1]

\* A read of parser->current_token.text
ReadText(parser) ==
    IF IsFreed(parser.texts, TextBlock(parser.current_token))
    THEN [parser EXCEPT !.texts.stale_reads = @ + 1]
    ELSE parser

parser_advance(parser) ==
    ShiftTokens(parser, token_free(parser.texts, parser.current_token),
                lexer_next_token(parser.lexer))

parser_match(parser, type) == parser.current_token.type = type

\* "Parse error at line %d, column %d: %s"
parser_error(parser, message) ==
    [parser EXCEPT !.has_error = 1,
                   !.errors = @ + 1,
                   !.error_message = [line |-> parser.current_token.line,
                                      column |-> parser.current_token.column,
                                      message |-> message]]

parser_consume(parser, type, error_msg) ==
    IF parser_match(parser, type)
    THEN [ok |-> 1, parser |-> parser_advance(parser)]
    ELSE [ok |-> 0, parser |-> parser_error(parser, error_msg)]

parser_has_error(parser) == parser.has_error

parser_get_error(parser) ==
    IF parser.has_error # 0 THEN parser.error_message ELSE "No error"

Ret(node, parser, heap) == [node |-> node, parser |-> parser, heap |-> heap]

\* What a constructor call m returned, with the Parser as it is then
Made(m, parser) == Ret(m.node, parser, m.heap)

\* if (!x || parser->has_error): what a parsing call returned is a failure
Failed(r) == r.node = NULL \/ r.parser.has_error # 0

RECURSIVE parse_expression(_, _), ExpressionLoop(_, _, _), parse_term(_, _),
          TermLoop(_, _, _), parse_factor(_, _)

\* parse_factor after '(' expression: the check of the expression
FactorParen(e, c) ==
    IF Failed(e) THEN Ret(NULL, e.parser, e.heap)
    ELSE IF c.ok = 0 THEN Ret(NULL, c.parser, ast_destroy(e.heap, e.node))
    ELSE Ret(e.node, c.parser, e.heap)

\* parse_factor after '(': expression, then ')'
FactorExpression(e) ==
    FactorParen(e, parser_consume(e.parser, "TOKEN_RPAREN",
                                  "Expected ')' after expression"))

\* parse_factor at an identifier after ast_create_identifier gave m:
\* free(name); return node;
FactorIdentifier(parser, name, m) ==
    Ret(m.node, parser, free(m.heap, CopyBlock(name)))

\* parse_factor at an identifier: name = strdup(parser->current_token.text)
FactorName(parser, heap, name) ==
    IF AllocFails(heap)
    THEN Ret(NULL, parser_error(parser, "Memory allocation failed for identifier"),
             malloc(heap, CopyBlock(name)))
    ELSE FactorIdentifier(parser_advance(parser), name,
                          Create(malloc(heap, CopyBlock(name)),
                                 ast_create_identifier(name)))

parse_factor(parser, heap) ==
    IF parser.has_error # 0 THEN Ret(NULL, parser, heap)
    ELSE IF parser_match(parser, "TOKEN_NUMBER")
    THEN Made(Create(heap, ast_create_number(parser.current_token.number)),
              parser_advance(parser))
    ELSE IF parser_match(parser, "TOKEN_IDENTIFIER")
    THEN FactorName(ReadText(parser), heap, parser.current_token.text)
    ELSE IF parser_match(parser, "TOKEN_LPAREN")
    THEN FactorExpression(parse_expression(parser_advance(parser), heap))
    ELSE Ret(NULL, parser_error(parser, "Expected number, identifier, or '('"),
             heap)

\* parse_term after ast_create_binary_op gave m
TermBinary(parser, m) ==
    IF m.node = NULL
    THEN Ret(NULL, parser_error(parser, "Failed to create binary operation node"),
             m.heap)
    ELSE TermLoop(parser, m.node, m.heap)

\* The body of the while loop of parse_term after the right operand r.
TermRight(left, operator, r) ==
    IF Failed(r) THEN Ret(NULL, r.parser, ast_destroy(r.heap, left))
    ELSE TermBinary(r.parser,
                    Create(r.heap, ast_create_binary_op(left, operator, r.node)))

\* The while loop of parse_term, entered with the left operand built so far.
TermLoop(parser, left, heap) ==
    IF parser_match(parser, "TOKEN_MULTIPLY") \/ parser_match(parser, "TOKEN_DIVIDE")
    THEN TermRight(left,
                   IF parser.current_token.type = "TOKEN_MULTIPLY"
                   THEN "*" ELSE "/",
                   parse_factor(parser_advance(parser), heap))
    ELSE Ret(left, parser, heap)

\* parse_term after its first factor l.
TermLeft(l) == IF Failed(l) THEN l ELSE TermLoop(l.parser, l.node, l.heap)

parse_term(parser, heap) ==
    IF parser.has_error # 0 THEN Ret(NULL, parser, heap)
    ELSE TermLeft(parse_factor(parser, heap))

\* parse_expression after ast_create_binary_op gave m
ExpressionBinary(parser, m) ==
    IF m.node = NULL
    THEN Ret(NULL, parser_error(parser, "Failed to create binary operation node"),
             m.heap)
    ELSE ExpressionLoop(parser, m.node, m.heap)

\* A faulty ExpressionRight: the new node takes the operands in the wrong order.
ExpressionRight_swapped(left, operator, r) ==
    IF Failed(r) THEN Ret(NULL, r.parser, ast_destroy(r.heap, left))
    ELSE ExpressionBinary(r.parser,
                          Create(r.heap,
                                 ast_create_binary_op(r.node, operator, left)))

\* A faulty ExpressionRight: the left operand is not destroyed when the right
\* operand fails.
ExpressionRight_leak(left, operator, r) ==
    IF Failed(r) THEN Ret(NULL, r.parser, r.heap)
    ELSE ExpressionBinary(r.parser,
                          Create(r.heap,
                                 ast_create_binary_op(left, operator, r.node)))

\* The body of the while loop of parse_expression after the right operand r.
ExpressionRight(left, operator, r) ==
    IF Failed(r) THEN Ret(NULL, r.parser, ast_destroy(r.heap, left))
    ELSE ExpressionBinary(r.parser,
                          Create(r.heap,
                                 ast_create_binary_op(left, operator, r.node)))

\* The while loop of parse_expression.
ExpressionLoop(parser, left, heap) ==
    IF parser_match(parser, "TOKEN_PLUS") \/ parser_match(parser, "TOKEN_MINUS")
    THEN ExpressionRight(left,
                         IF parser.current_token.type = "TOKEN_PLUS"
                         THEN "+" ELSE "-",
                         parse_term(parser_advance(parser), heap))
    ELSE Ret(left, parser, heap)

\* parse_expression after its first term l.
ExpressionLeft(l) ==
    IF Failed(l) THEN l ELSE ExpressionLoop(l.parser, l.node, l.heap)

parse_expression(parser, heap) ==
    IF parser.has_error # 0 THEN Ret(NULL, parser, heap)
    ELSE ExpressionLeft(parse_term(parser, heap))

\* if (parser_match(parser, TOKEN_SEMICOLON)) parser_advance(parser);
OptionalSemicolon(parser) ==
    IF parser_match(parser, "TOKEN_SEMICOLON") THEN parser_advance(parser)
    ELSE parser

\* parse_let_declaration after ast_create_let_decl gave m: free(name), then
\* the check of the node
LetNode(parser, name, value, m) ==
    IF m.node = NULL
    THEN Ret(NULL, parser_error(parser, "Failed to create let declaration node"),
             ast_destroy(free(m.heap, CopyBlock(name)), value))
    ELSE Ret(m.node, parser, free(m.heap, CopyBlock(name)))

\* parse_let_declaration after the value and the ';' check c
LetSemicolon(name, v, c) ==
    IF c.ok = 0
    THEN Ret(NULL, c.parser,
             ast_destroy(free(v.heap, CopyBlock(name)), v.node))
    ELSE LetNode(c.parser, name, v.node,
                 Create(v.heap, ast_create_let_decl(name, v.node)))

\* parse_let_declaration after the value expression v
LetExpression(name, v) ==
    IF Failed(v) THEN Ret(NULL, v.parser, free(v.heap, CopyBlock(name)))
    ELSE LetSemicolon(name, v,
                      parser_consume(v.parser, "TOKEN_SEMICOLON",
                                     "Expected ';' after let declaration"))

\* parse_let_declaration after the '=' check c
LetAssign(name, c, heap) ==
    IF c.ok = 0 THEN Ret(NULL, c.parser, free(heap, CopyBlock(name)))
    ELSE LetExpression(name, parse_expression(c.parser, heap))

\* parse_let_declaration at the name: name = strdup(...), then '='
LetCopy(parser, heap, name) ==
    IF AllocFails(heap)
    THEN Ret(NULL,
             parser_error(parser, "Memory allocation failed for variable name"),
             malloc(heap, CopyBlock(name)))
    ELSE LetAssign(name,
                   parser_consume(parser_advance(parser), "TOKEN_ASSIGN",
                                  "Expected '=' after variable name"),
                   malloc(heap, CopyBlock(name)))

\* parse_let_declaration after the 'let' check c
LetName(c, heap) ==
    IF c.ok = 0 THEN Ret(NULL, c.parser, heap)
    ELSE IF ~parser_match(c.parser, "TOKEN_IDENTIFIER")
    THEN Ret(NULL, parser_error(c.parser, "Expected identifier after 'let'"),
             heap)
    ELSE LetCopy(ReadText(c.parser), heap, c.parser.current_token.text)

parse_let_declaration(parser, heap) ==
    IF parser.has_error # 0 THEN Ret(NULL, parser, heap)
    ELSE LetName(parser_consume(parser, "TOKEN_LET", "Expected 'let' keyword"),
                 heap)

\* parse_print_call after ast_create_print_call gave m
PrintNode(parser, arg, m) ==
    IF m.node = NULL
    THEN Ret(NULL, parser_error(parser, "Failed to create print call node"),
             ast_destroy(m.heap, arg))
    ELSE Ret(m.node, parser, m.heap)

\* parse_print_call after the argument and the ')' check c
PrintClose(a, c) ==
    IF c.ok = 0 THEN Ret(NULL, c.parser, ast_destroy(a.heap, a.node))
    ELSE PrintNode(OptionalSemicolon(c.parser), a.node,
                   Create(a.heap, ast_create_print_call(a.node)))

\* parse_print_call after the argument expression a
PrintExpression(a) ==
    IF Failed(a) THEN Ret(NULL, a.parser, a.heap)
    ELSE PrintClose(a, parser_consume(a.parser, "TOKEN_RPAREN",
                                      "Expected ')' after print argument"))

\* parse_print_call after the '(' check c
PrintOpen(c, heap) ==
    IF c.ok = 0 THEN Ret(NULL, c.parser, heap)
    ELSE PrintExpression(parse_expression(c.parser, heap))

\* parse_print_call after the 'print' check c
PrintName(c, heap) ==
    IF c.ok = 0 THEN Ret(NULL, c.parser, heap)
    ELSE PrintOpen(parser_consume(c.parser, "TOKEN_LPAREN",
                                  "Expected '(' after 'print'"), heap)

parse_print_call(parser, heap) ==
    IF parser.has_error # 0 THEN Ret(NULL, parser, heap)
    ELSE PrintName(parser_consume(parser, "TOKEN_IDENTIFIER", "Expected 'print'"),
                   heap)

\* parse_statement after the expression e of an expression statement
StatementExpression(e) ==
    IF Failed(e) THEN Ret(NULL, e.parser, e.heap)
    ELSE Ret(e.node, OptionalSemicolon(e.parser), e.heap)

\* parse_statement after its check for print: strcmp has read the text of
\* the current token if that is an identifier
StrcmpPrint(parser) ==
    IF parser_match(parser, "TOKEN_IDENTIFIER")
       /\ parser.current_token.text # NULL_TEXT
    THEN ReadText(parser)
    ELSE parser

parse_statement(parser, heap) ==
    IF parser.has_error # 0 THEN Ret(NULL, parser, heap)
    ELSE IF parser_match(parser, "TOKEN_LET")
    THEN parse_let_declaration(parser, heap)
    ELSE IF parser_match(parser, "TOKEN_IDENTIFIER")
            /\ parser.current_token.text # NULL_TEXT
            /\ parser.current_token.text = <<"p", "r", "i", "n", "t">>
    THEN parse_print_call(StrcmpPrint(parser), heap)
    ELSE StatementExpression(parse_expression(StrcmpPrint(parser), heap))

RECURSIVE ParseLoop(_, _, _)

\* The end of an iteration of the statement loop of parser_parse: the
\* tokens consumed so far and the error flag are noted
EndIteration(parser) ==
    [parser EXCEPT !.iterations =
                       Append(@, [advances |-> parser.advances,
                                  has_error |-> parser.has_error])]

\* The body of the statement loop of parser_parse after
\* ast_program_add_statement gave a
ParseAdd(parser, stmt, a) ==
    IF a.ok = 0
    THEN Ret(NULL,
             EndIteration(parser_error(parser,
                                       "Failed to add statement to program")),
             ast_destroy(ast_destroy(a.heap, stmt), a.program))
    ELSE ParseLoop(EndIteration(parser), a.program, a.heap)

\* A faulty StatementFallback: the error is recorded whether or not the
\* Parser holds one.
StatementFallback_always(parser) ==
    parser_error(parser, "Failed to parse statement")

\* A faulty StatementFallback: no error is recorded.
StatementFallback_never(parser) == parser

\* if (!parser->has_error) parser_error(parser, "Failed to parse statement");
StatementFallback(parser) ==
    IF parser.has_error = 0
    THEN parser_error(parser, "Failed to parse statement")
    ELSE parser

\* The body of the statement loop of parser_parse after parse_statement gave s.
ParseStatement(program, s) ==
    IF s.node = NULL
    THEN Ret(NULL, EndIteration(StatementFallback(s.parser)),
             ast_destroy(s.heap, program))
    ELSE ParseAdd(s.parser, s.node, add_statement(s.heap, program, s.node))

\* A faulty ParseLoop: the first iteration of the loop ends before it has
\* parsed anything.
ParseLoop_idle(parser, program, heap) ==
    IF ~parser_match(parser, "TOKEN_EOF") /\ parser.has_error = 0
    THEN IF parser.iterations = <<>>
         THEN ParseLoop(EndIteration(parser), program, heap)
         ELSE ParseStatement(program, parse_statement(parser, heap))
    ELSE Ret(program, parser, heap)

\* The statement loop of parser_parse.
ParseLoop(parser, program, heap) ==
    IF ~parser_match(parser, "TOKEN_EOF") /\ parser.has_error = 0
    THEN ParseStatement(program, parse_statement(parser, heap))
    ELSE Ret(program, parser, heap)

\* parser_parse after ast_create_program gave m
ParseProgram(parser, m) ==
    IF m.node = NULL
    THEN Ret(NULL, parser_error(parser, "Failed to create program node"), m.heap)
    ELSE ParseLoop(parser, m.node, m.heap)

parser_parse(parser, heap) ==
    ParseProgram(parser, Create(heap, ast_create_program))

(***************************************************************************)
(* Environment (src/env.c)                                                 *)
(*                                                                         *)
(* count is Len(variables).  malloc and realloc are taken to succeed in    *)
(* env.c, so env_resize returns 1.                                         *)
(***************************************************************************)
INITIAL_CAPACITY == 8

env_create == [variables |-> <<>>, capacity |-> INITIAL_CAPACITY]

env_resize(env) == [env EXCEPT !.capacity = env.capacity * 2]

\* The index of the first entry named name at or after i, or 0: the scan of
\* env_set and env_get.
RECURSIVE EnvFind(_, _, _)
EnvFind(env, name, i) ==
    IF i > Len(env.variables) THEN 0
    ELSE IF env.variables[i].name = name THEN i
    ELSE EnvFind(env, name, i + 1)

\* A faulty env_set: the scan for an existing entry is missing.
env_set_append(env, name, value) ==
    IF env = NULL \/ name = NULL_TEXT THEN [ok |-> 0, env |-> env]
    ELSE LET grown == IF Len(env.variables) >= env.capacity
                      THEN env_resize(env) ELSE env
         IN  [ok |-> 1,
              env |-> [grown EXCEPT !.variables =
                          Append(@, [name |-> name, value |-> value])]]

\* [ok, env]: the return value and the environment afterwards.
env_set(env, name, value) ==
    IF env = NULL \/ name = NULL_TEXT THEN [ok |-> 0, env |-> env]
    ELSE LET i == EnvFind(env, name, 1)
         IN  IF i # 0
             THEN [ok |-> 1, env |-> [env EXCEPT !.variables[i].value = value]]
             ELSE LET grown == IF Len(env.variables) >= env.capacity
                               THEN env_resize(env) ELSE env
                  IN  [ok |-> 1,
                       env |-> [grown EXCEPT !.variables =
                                   Append(@, [name |-> name, value |-> value])]]

\* [ok, value]: the return value and *value.
env_get(env, name) ==
    IF env = NULL \/ name = NULL_TEXT THEN [ok |-> 0, value |-> Zero]
    ELSE LET i == EnvFind(env, name, 1)
         IN  IF i # 0 THEN [ok |-> 1, value |-> env.variables[i].value]
             ELSE [ok |-> 0, value |-> Zero]

(***************************************************************************)
(* Evaluator (src/interpreter.c) and pipeline (src/main.c): the state      *)
(***************************************************************************)
VARIABLES
    mode,                   \* "main": the command line; "test": direct calls
                            \* of interpret, as src/test/test_interpreter.c
                            \* makes them; "env": direct calls of env_set and
                            \* env_get, as src/test/test_env.c makes them;
                            \* "parser" and "ast": direct calls of the
                            \* parser and of ast_destroy, as
                            \* src/test/test_parser.c and src/test/test_ast.c
                            \* make them; "lexer": direct calls of
                            \* lexer_next_token, as src/test/test_lexer.c
                            \* makes them
    pc,                     \* where the caller is
    source,                 \* main: the text of the script
    lexer,                  \* lexer: the Lexer of the direct calls, or NULL
    parser,                 \* main: the Parser after parser_parse, or NULL
    ast,                    \* the root node handed to interpret
    heap,                   \* the memory of the AST nodes and their names
    env,                    \* the Environment, or NULL
    interpreter_error,      \* static int interpreter_error
    interpreter_error_msg,  \* static char interpreter_error_msg[256]
    stack,                  \* the activations of interpret, outermost first
    ret,                    \* the value the last return of interpret gave
    result,                 \* what the last top-level interpret returned
    out,                    \* stdout: one entry per printf
    exit_code,              \* main's exit_code
    log,                    \* history: what the current top-level call did;
                            \* lexer: one entry per lexer_next_token call
    before,                 \* history: the state the current top-level call
                            \* of interpret started in
    last_set,               \* history (env): name -> value of its last env_set
    last_op                 \* history (env): the last direct call and its result

vars == <<mode, pc, source, lexer, parser, ast, heap, env, interpreter_error,
          interpreter_error_msg, stack, ret, result, out, exit_code, log,
          before, last_set, last_op>>

\* An error message: the format's text and its %s or %c argument.
Msg(text, arg) == [text |-> text, arg |-> arg]
NoMsg == Msg("", <<>>)

interpreter_has_error == interpreter_error

interpreter_get_error == interpreter_error_msg

---------------------------------------------------------------------------
(***************************************************************************)
(* Inputs                                                                  *)
(***************************************************************************)
\* The longest statement list of a hand-built Program node.
MaxStmts == 3

RECURSIVE Concat(_)
Concat(ss) == IF ss = <<>> THEN <<>> ELSE Head(ss) \o Concat(Tail(ss))

\* The lexemes joined by single spaces.
RECURSIVE Spaced(_)
Spaced(ss) ==
    IF Len(ss) <= 1 THEN Concat(ss) ELSE Head(ss) \o <<" ">> \o Spaced(Tail(ss))

kw_print == <<"p", "r", "i", "n", "t">>
kw_let == <<"l", "e", "t">>
kw_if == <<"i", "f">>
kw_else == <<"e", "l", "s", "e">>
id_x == <<"x">>
id_y == <<"y">>
id_undefined_var == <<"u", "n", "d", "e", "f", "i", "n", "e", "d", "_", "v", "a", "r">>

\* Operand and operator texts of the three-operand expressions.
lit_1_5 == <<"1", ".", "5">>
OperandTexts == {<<"2">>, <<"3">>, <<"4">>, lit_1_5, id_x, kw_print}
\* The operands tried in the first, second and third place of "a op1 b op2 c".
FirstOperands == {<<"2">>, lit_1_5, id_x, kw_print}
SecondOperands == {<<"3">>, id_x, kw_print}
ThirdOperands == {<<"4">>, lit_1_5, id_x}
ArithTexts == {<<"+">>, <<"-">>, <<"*">>, <<"/">>}
ComparisonTexts == {<<">">>, <<"<">>, <<">", "=">>, <<"<", "=">>, <<"=", "=">>,
                    <<"!", "=">>}
OperatorTexts == ArithTexts \cup ComparisonTexts

\* "a op1 b op2 c"
Expr3(a, op1, b, op2, c) == Spaced(<<a, op1, b, op2, c>>)
\* "a op b"
Expr2(a, op, b) == Spaced(<<a, op, b>>)

ExprSources ==
    {Expr3(a, op1, b, op2, c) :
        a \in FirstOperands, b \in SecondOperands, c \in ThirdOperands,
        op1 \in OperatorTexts, op2 \in OperatorTexts}
    \cup {Expr2(a, op, b) : a \in OperandTexts, b \in OperandTexts,
                            op \in OperatorTexts}

\* The end-to-end scripts of the spec and of src/test/test_integration.c.
Script_print_sum == kw_print \o <<"(", "5", " ", "+", " ", "3", ")", ";">>
Script_precedence ==
    kw_print \o <<"(", "2", " ", "+", " ", "3", " ", "*", " ", "4", ")", ";">>
Script_let_chain ==
    kw_let \o <<" ", "x", " ", "=", " ", "5", ";", "\n">>
    \o kw_let \o <<" ", "y", " ", "=", " ", "x", " ", "*", " ", "2", ";", "\n">>
    \o kw_print \o <<"(", "y", ")", ";">>
Script_multi ==
    kw_let \o <<" ", "x", " ", "=", " ", "5", ";", "\n">>
    \o kw_print \o <<"(", "x", ")", ";", "\n">>
    \o kw_let \o <<" ", "y", " ", "=", " ", "x", " ", "+", " ", "3", ";", "\n">>
    \o kw_print \o <<"(", "y", ")", ";">>
Script_redeclare ==
    kw_let \o <<" ", "x", " ", "=", " ", "5", ";", "\n">>
    \o kw_let \o <<" ", "x", " ", "=", " ", "1", "0", ";", "\n">>
    \o kw_print \o <<"(", "x", ")", ";">>
Script_div_zero == kw_print \o <<"(", "5", " ", "/", " ", "0", ")", ";">>
Script_undefined == kw_print \o <<"(">> \o id_undefined_var \o <<")", ";">>
Script_print_then_fail ==
    kw_print \o <<"(", "1", ")", ";", " ">> \o kw_let \o <<" ", "x", " ", "=", " ", "2", ";", " ">>
    \o kw_print \o <<"(", "x", " ", "/", " ", "0", ")", ";", " ">>
    \o kw_print \o <<"(", "3", ")", ";">>
Script_syntax_error == kw_let \o <<" ", "x", " ", "=", " ", "5", " ", "+", ";">>
Script_if_false_else ==
    kw_if \o <<" ", "(", "0", ")", " ">> \o kw_print \o <<"(", "1", ")", " ">>
    \o kw_else \o <<" ">> \o kw_print \o <<"(", "2", ")", ";">>
Script_if_true_else ==
    kw_if \o <<" ", "(", "1", ")", " ">> \o kw_print \o <<"(", "1", ")", " ">>
    \o kw_else \o <<" ">> \o kw_print \o <<"(", "2", ")", ";">>
Script_if_false == kw_if \o <<" ", "(", "0", ")", " ">> \o kw_print \o <<"(", "4", "2", ")", ";">>
Script_if_true == kw_if \o <<" ", "(", "1", ")", " ">> \o kw_print \o <<"(", "4", "2", ")", ";">>
Script_empty == <<>>
\* The sources of src/test/test_parser.c for the comparison operators.
Script_cmp_precedence ==
    Spaced(<<<<"5">>, <<"+">>, <<"3">>, <<">">>, <<"2">>, <<"*">>, <<"4">>>>)
Script_cmp_chain == Spaced(<<<<"1">>, <<"<">>, <<"2">>, <<"<">>, <<"3">>>>)

\* The lexemes of the malformed if statements of src/test/test_parser.c:
\* "if 1) print(42);", "if (1 print(42);", "if () print(42);", "if (1);" and
\* "if (1) print(1) else;"
Script_if_no_lparen ==
    Spaced(<<kw_if, <<"1">>, <<")">>, kw_print, <<"(">>, <<"4", "2">>, <<")">>,
             <<";">>>>)
Script_if_no_rparen ==
    Spaced(<<kw_if, <<"(">>, <<"1">>, kw_print, <<"(">>, <<"4", "2">>, <<")">>,
             <<";">>>>)
Script_if_no_condition ==
    Spaced(<<kw_if, <<"(">>, <<")">>, kw_print, <<"(">>, <<"4", "2">>, <<")">>,
             <<";">>>>)
Script_if_no_branch == Spaced(<<kw_if, <<"(">>, <<"1">>, <<")">>, <<";">>>>)
Script_if_no_else_branch ==
    Spaced(<<kw_if, <<"(">>, <<"1">>, <<")">>, kw_print, <<"(">>, <<"1">>,
             <<")">>, kw_else, <<";">>>>)

MalformedIfs ==
    {Script_if_no_lparen, Script_if_no_rparen, Script_if_no_condition,
     Script_if_no_branch, Script_if_no_else_branch}

\* Sources with one syntax error: inside parentheses, in the argument of a
\* print, in a right operand, at a missing ')' or ';', and in a statement
\* that follows well-formed ones.
Script_bad_paren ==
    Spaced(<<<<"2">>, <<"*">>, <<"(">>, id_x, <<"+">>, <<")">>, <<";">>>>)
Script_bad_print_arg ==
    Spaced(<<kw_print, <<"(">>, <<"2">>, <<"+">>, <<")">>, <<";">>>>)
Script_bad_right_operand ==
    Spaced(<<id_x, <<"+">>, <<"3">>, <<"*">>, <<";">>>>)
Script_unclosed_paren == Spaced(<<<<"(">>, <<"2">>, <<"+">>, id_x, <<";">>>>)
Script_unclosed_print ==
    Spaced(<<kw_print, <<"(">>, <<"2">>, <<"+">>, id_x, <<";">>>>)
Script_let_no_semicolon ==
    Spaced(<<kw_let, id_x, <<"=">>, <<"2">>, <<"*">>, id_y>>)
Script_let_no_name == Spaced(<<kw_let, <<"=">>, <<"2">>, <<";">>>>)
Script_bad_later ==
    Spaced(<<kw_let, id_x, <<"=">>, <<"1">>, <<";">>, kw_print, <<"(">>, id_x,
             <<")">>, <<";">>, <<"3">>, <<"+">>, <<";">>>>)

\* "let x = 1;" and, on the second line, "print(x;"
Script_bad_line2 ==
    kw_let \o <<" ", "x", " ", "=", " ", "1", ";", "\n">>
    \o kw_print \o <<"(", "x", ";">>

SyntaxErrors ==
    {Script_syntax_error, Script_bad_paren, Script_bad_print_arg,
     Script_bad_right_operand, Script_unclosed_paren, Script_unclosed_print,
     Script_let_no_semicolon, Script_let_no_name, Script_bad_later,
     Script_bad_line2}

Scripts ==
    {Script_print_sum, Script_precedence, Script_let_chain, Script_multi,
     Script_redeclare, Script_div_zero, Script_undefined, Script_print_then_fail,
     Script_if_false_else, Script_if_true_else,
     Script_if_false, Script_if_true, Script_empty, Script_cmp_precedence,
     Script_cmp_chain}
    \cup MalformedIfs \cup SyntaxErrors

Sources == ExprSources \cup Scripts

\* Hand-built trees, as src/test/test_interpreter.c builds them.
N(i) == ast_create_number(Num(i))
Id(name) == ast_create_identifier(name)
Bin(l, op, r) == ast_create_binary_op(l, op, r)

ArithTags == {"+", "-", "*", "/"}
\* '>' '<' and the reserved tags of >= <= == !=
ComparisonTags == {">", "<", "G", "L", "E", "N"}
\* "%" stands for a tag no operator has.
OperatorTags == ArithTags \cup ComparisonTags \cup {"%"}

Leaves == {N(0), N(1), N(2), N(-2), Id(id_x), Id(id_undefined_var)}

Operands ==
    Leaves \cup
    {ast_create_print_call(N(1)), ast_create_print_call(Id(id_undefined_var)),
     ast_create_let_decl(id_x, N(2)), ast_create_let_decl(id_y, Id(id_undefined_var)),
     Bin(N(1), "/", N(0)), Bin(N(2), "-", N(2)), Bin(N(1), "+", Id(id_undefined_var)),
     Bin(N(1), "/", N(2)),
     Bin(ast_create_let_decl(id_x, N(2)), "+", Id(id_undefined_var)), NULL}

BinaryAsts == {Bin(l, op, r) : l \in Operands, r \in Operands, op \in OperatorTags}

LetAsts == {ast_create_let_decl(n, v) : n \in {id_x, id_y}, v \in Operands}

PrintAsts == {ast_create_print_call(v) : v \in Operands}

Conditions == {N(0), N(1), N(2), Id(id_x), Id(id_undefined_var),
               Bin(N(2), "-", N(2)), Bin(Id(id_x), "*", N(2))}
Branches == {ast_create_print_call(N(1)), ast_create_let_decl(id_x, N(1))}
IfAsts ==
    {ast_create_if_stmt(c, t, e) :
        c \in Conditions, t \in Branches,
        e \in {NULL, ast_create_print_call(N(2))}}

Statements ==
    {ast_create_let_decl(id_x, N(1)), ast_create_let_decl(id_y, Id(id_x)),
     ast_create_print_call(Id(id_x)), ast_create_print_call(N(2)),
     Bin(N(1), "/", N(0)), ast_create_let_decl(id_x, Id(id_undefined_var)),
     Bin(N(2), "+", N(1))}

RECURSIVE SeqsUpTo(_, _)
SeqsUpTo(S, k) ==
    IF k = 0 THEN {<<>>}
    ELSE LET shorter == SeqsUpTo(S, k - 1)
         IN  shorter \cup {Append(ss, x) : ss \in shorter, x \in S}

\* ast_create_program, then ast_program_add_statement for each statement.
RECURSIVE ProgramOf(_)
ProgramOf(ss) ==
    IF ss = <<>> THEN ast_create_program
    ELSE ast_program_add_statement(ProgramOf(SubSeq(ss, 1, Len(ss) - 1)),
                                   ss[Len(ss)])

ProgramAsts == {ProgramOf(ss) : ss \in SeqsUpTo(Statements, MaxStmts)}

TestAsts ==
    Operands \cup BinaryAsts \cup LetAsts \cup PrintAsts \cup IfAsts
    \cup ProgramAsts

\* The node of the second of two calls in a row.
AgainAsts == {N(2), Id(id_undefined_var)}

\* The Environment of a direct call: fresh, holding x, or the NULL pointer.
TestEnvs == {env_create, env_set(env_create, id_x, Num(2)).env, NULL}

---------------------------------------------------------------------------
(***************************************************************************)
(* interpret (src/interpreter.c), one activation record per call           *)
(***************************************************************************)
callerVars == <<mode, pc, source, lexer, parser, ast, heap, exit_code, before, last_set,
                last_op>>

\* An activation of interpret: its node, the node's path from the root, the
\* place it has reached and its locals.
Frame(node, path) ==
    [node |-> node, path |-> path, pc |-> "entry", left_val |-> Zero,
     i |-> 0, last_result |-> Zero]

Running == stack # <<>>
Top == stack[Len(stack)]
Pop == SubSeq(stack, 1, Len(stack) - 1)

Event(e, path, arg) == [e |-> e, path |-> path, arg |-> arg]

set_interpreter_error(message) ==
    /\ interpreter_error' = 1
    /\ interpreter_error_msg' = message

interpreter_clear_error ==
    /\ interpreter_error' = 0
    /\ interpreter_error_msg' = NoMsg

\* return value; from the running activation
Return(value, events) ==
    /\ stack' = Pop
    /\ ret' = value
    /\ result' = IF Len(stack) = 1 THEN value ELSE result
    /\ log' = log \o events \o <<Event("exit", Top.path, value)>>

\* set_interpreter_error(message); return 0.0;
Fail(message, events) ==
    /\ set_interpreter_error(message)
    /\ Return(Zero, events \o <<Event("error", Top.path, message)>>)

\* interpret(child, env) called by the running activation, which goes on as f
Descend(f, child, index, events) ==
    /\ stack' = Append([stack EXCEPT ![Len(stack)] = f],
                       Frame(child, Append(f.path, index)))
    /\ log' = log \o events
    /\ UNCHANGED <<ret, result>>

Enter == <<Event("enter", Top.path, Top.node.type)>>

\* Past the two NULL checks, at the switch on node->type.
AtSwitch(type) ==
    /\ Running
    /\ Top.pc = "entry"
    /\ Top.node # NULL
    /\ env # NULL
    /\ Top.node.type = type

\* if (!node)
InterpretNullNode ==
    /\ Running
    /\ Top.pc = "entry"
    /\ Top.node = NULL
    /\ Fail(Msg("Null AST node", <<>>), Enter)
    /\ UNCHANGED <<env, out>>
    /\ UNCHANGED callerVars

\* if (!env)
InterpretNullEnv ==
    /\ Running
    /\ Top.pc = "entry"
    /\ Top.node # NULL
    /\ env = NULL
    /\ Fail(Msg("Null environment", <<>>), Enter)
    /\ UNCHANGED <<env, out>>
    /\ UNCHANGED callerVars

\* case AST_NUMBER
EvalNumber ==
    /\ AtSwitch("AST_NUMBER")
    /\ interpreter_clear_error
    /\ Return(Top.node.number, Enter)
    /\ UNCHANGED <<env, out>>
    /\ UNCHANGED callerVars

\* case AST_IDENTIFIER
EvalIdentifier ==
    /\ AtSwitch("AST_IDENTIFIER")
    /\ LET g == env_get(env, Top.node.identifier)
       IN  IF g.ok # 0
           THEN interpreter_clear_error /\ Return(g.value, Enter)
           ELSE Fail(Msg("Undefined variable: %s", Top.node.identifier), Enter)
    /\ UNCHANGED <<env, out>>
    /\ UNCHANGED callerVars

\* case AST_BINARY_OP: interpret(node->data.binary.left, env)
BinaryOpLeft ==
    /\ AtSwitch("AST_BINARY_OP")
    /\ interpreter_clear_error
    /\ Descend([Top EXCEPT !.pc = "left"], Top.node.left, 1, Enter)
    /\ UNCHANGED <<env, out>>
    /\ UNCHANGED callerVars

\* A faulty LeftFailed: the check after the left operand is missing.
LeftFailed_never == FALSE

\* The check after the left operand: TRUE when the activation returns 0.0.
LeftFailed == interpreter_has_error # 0

\* left has returned: check, then interpret(node->data.binary.right, env)
BinaryOpRight ==
    /\ Running
    /\ Top.pc = "left"
    /\ IF LeftFailed
       THEN Return(Zero, <<>>)
       ELSE Descend([Top EXCEPT !.pc = "right", !.left_val = ret],
                    Top.node.right, 2, <<>>)
    /\ UNCHANGED <<interpreter_error, interpreter_error_msg, env, out>>
    /\ UNCHANGED callerVars

\* A faulty BinaryOperator: '/' tests the dividend, not the divisor, for 0.0.
BinaryOperator_dividend(operator, left_val, right_val) ==
    LET value(v) == [error |-> 0, msg |-> NoMsg, value |-> v]
    IN  CASE operator = "+" -> value(DAdd(left_val, right_val))
          [] operator = "-" -> value(DSub(left_val, right_val))
          [] operator = "*" -> value(DMul(left_val, right_val))
          [] operator = "/" ->
                IF left_val = Zero
                THEN [error |-> 1, msg |-> Msg("Division by zero", <<>>),
                      value |-> Zero]
                ELSE value(IF right_val = Zero THEN left_val
                           ELSE DDiv(left_val, right_val))
          [] OTHER -> [error |-> 1,
                       msg |-> Msg("Unknown binary operator: %c", <<operator>>),
                       value |-> Zero]

\* switch (node->data.binary.operator): [error, msg, value]
BinaryOperator(operator, left_val, right_val) ==
    LET value(v) == [error |-> 0, msg |-> NoMsg, value |-> v]
    IN  CASE operator = "+" -> value(DAdd(left_val, right_val))
          [] operator = "-" -> value(DSub(left_val, right_val))
          [] operator = "*" -> value(DMul(left_val, right_val))
          [] operator = "/" ->
                IF right_val = Zero
                THEN [error |-> 1, msg |-> Msg("Division by zero", <<>>),
                      value |-> Zero]
                ELSE value(DDiv(left_val, right_val))
          [] OTHER -> [error |-> 1,
                       msg |-> Msg("Unknown binary operator: %c", <<operator>>),
                       value |-> Zero]

\* right has returned: check, then do the math
BinaryOpApply ==
    /\ Running
    /\ Top.pc = "right"
    /\ IF interpreter_has_error # 0
       THEN /\ Return(Zero, <<>>)
            /\ UNCHANGED <<interpreter_error, interpreter_error_msg>>
       ELSE LET r == BinaryOperator(Top.node.operator, Top.left_val, ret)
            IN  IF r.error # 0
                THEN Fail(r.msg, <<>>)
                ELSE /\ Return(r.value, <<>>)
                     /\ UNCHANGED <<interpreter_error, interpreter_error_msg>>
    /\ UNCHANGED <<env, out>>
    /\ UNCHANGED callerVars

\* case AST_LET_DECL: interpret(node->data.let_decl.value, env)
LetValue ==
    /\ AtSwitch("AST_LET_DECL")
    /\ interpreter_clear_error
    /\ Descend([Top EXCEPT !.pc = "value"], Top.node.value, 1, Enter)
    /\ UNCHANGED <<env, out>>
    /\ UNCHANGED callerVars

\* A faulty LetValueFailed: the check after the value expression is missing.
LetValueFailed_never == FALSE

\* The check after the value expression: TRUE when nothing is stored.
LetValueFailed == interpreter_has_error # 0

\* the value has returned: check, then env_set
LetStore ==
    /\ Running
    /\ Top.pc = "value"
    /\ IF LetValueFailed
       THEN /\ Return(Zero, <<>>)
            /\ UNCHANGED <<interpreter_error, interpreter_error_msg, env>>
       ELSE LET s == env_set(env, Top.node.name, ret)
            IN  IF s.ok = 0
                THEN /\ Fail(Msg("Failed to store variable in environment", <<>>),
                             <<>>)
                     /\ UNCHANGED env
                ELSE /\ env' = s.env
                     /\ Return(ret, <<Event("store", Top.path,
                                            <<Top.node.name, ret>>)>>)
                     /\ UNCHANGED <<interpreter_error, interpreter_error_msg>>
    /\ UNCHANGED out
    /\ UNCHANGED callerVars

\* case AST_PRINT_CALL: interpret(node->data.print_arg, env)
PrintArg ==
    /\ AtSwitch("AST_PRINT_CALL")
    /\ interpreter_clear_error
    /\ Descend([Top EXCEPT !.pc = "arg"], Top.node.print_arg, 1, Enter)
    /\ UNCHANGED <<env, out>>
    /\ UNCHANGED callerVars

\* A faulty ArgFailed: the check after the argument is missing.
ArgFailed_never == FALSE

\* A faulty ArgFailed: the PrintCall returns before its printf.
ArgFailed_always == TRUE

\* The check after the argument: TRUE when nothing is printed.
ArgFailed == interpreter_has_error # 0

\* the argument has returned: check, then printf("%.15g\n", value)
PrintWrite ==
    /\ Running
    /\ Top.pc = "arg"
    /\ IF ArgFailed
       THEN /\ Return(Zero, <<>>)
            /\ UNCHANGED out
       ELSE /\ out' = Append(out, [format |-> "%.15g\n", value |-> ret])
            /\ Return(ret, <<Event("print", Top.path, ret)>>)
    /\ UNCHANGED <<interpreter_error, interpreter_error_msg, env>>
    /\ UNCHANGED callerVars

\* A faulty StatementFailed: the check after a statement is missing.
StatementFailed_never == FALSE

\* The check after a statement: TRUE when the loop is left with return 0.0.
StatementFailed == interpreter_has_error # 0

\* The for loop of case AST_PROGRAM at its test, with i and last_result.
ProgramLoop(f, events) ==
    IF f.i < Len(f.node.statements)
    THEN Descend([f EXCEPT !.pc = "stmt"], f.node.statements[f.i + 1], f.i + 1,
                 events)
    ELSE Return(f.last_result, events)

\* case AST_PROGRAM: last_result = 0.0; i = 0; the loop's first test
ProgramEnter ==
    /\ AtSwitch("AST_PROGRAM")
    /\ interpreter_clear_error
    /\ ProgramLoop([Top EXCEPT !.i = 0, !.last_result = Zero], Enter)
    /\ UNCHANGED <<env, out>>
    /\ UNCHANGED callerVars

\* statement i has returned: check, i++, the loop's next test
ProgramStep ==
    /\ Running
    /\ Top.pc = "stmt"
    /\ IF StatementFailed
       THEN Return(Zero, <<>>)
       ELSE ProgramLoop([Top EXCEPT !.i = @ + 1, !.last_result = ret], <<>>)
    /\ UNCHANGED <<interpreter_error, interpreter_error_msg, env, out>>
    /\ UNCHANGED callerVars

\* The node types the switch of interpret has a case for.
InterpretedTypes ==
    {"AST_NUMBER", "AST_IDENTIFIER", "AST_BINARY_OP", "AST_LET_DECL",
     "AST_PRINT_CALL", "AST_PROGRAM"}

\* default:
EvalUnsupported ==
    /\ Running
    /\ Top.pc = "entry"
    /\ Top.node # NULL
    /\ env # NULL
    /\ Top.node.type \notin InterpretedTypes
    /\ Fail(Msg("Unsupported AST node type in interpreter core", <<>>), Enter)
    /\ UNCHANGED <<env, out>>
    /\ UNCHANGED callerVars

InterpretStep ==
    \/ InterpretNullNode
    \/ InterpretNullEnv
    \/ EvalNumber
    \/ EvalIdentifier
    \/ BinaryOpLeft
    \/ BinaryOpRight
    \/ BinaryOpApply
    \/ LetValue
    \/ LetStore
    \/ PrintArg
    \/ PrintWrite
    \/ ProgramEnter
    \/ ProgramStep
    \/ EvalUnsupported

---------------------------------------------------------------------------
(***************************************************************************)
(* The callers                                                             *)
(***************************************************************************)
interpVars == <<env, interpreter_error, interpreter_error_msg, stack, ret,
                result, out, log>>

\* What a top-level call of interpret finds when it starts.
Snapshot(e, flag, msg) ==
    [env |-> e, out |-> out, interpreter_error |-> flag,
     interpreter_error_msg |-> msg]

\* A faulty MainParsed: main goes on to interpret whatever parser_parse gave.
MainParsed_run(r) ==
    /\ parser' = r.parser
    /\ ast' = r.node
    /\ heap' = r.heap
    /\ pc' = "parsed"
    /\ UNCHANGED exit_code

\* main after parser_parse gave r: if (!ast), if (parser_has_error(parser))
MainParsed(r) ==
    /\ parser' = r.parser
    /\ ast' = r.node
    /\ heap' = r.heap
    /\ IF r.node = NULL \/ parser_has_error(r.parser) # 0
       THEN pc' = "done" /\ exit_code' = 1
       ELSE pc' = "parsed" /\ UNCHANGED exit_code

\* main (src/main.c): lexer_create, parser_create, parser_parse and the two
\* checks of its result.
MainParse ==
    /\ mode = "main"
    /\ pc = "start"
    /\ MainParsed(parser_parse(parser_create(lexer_create(source)), heap))
    /\ UNCHANGED <<mode, source, lexer, before, last_set, last_op>>
    /\ UNCHANGED interpVars

\* main: env_create(); interpreter_clear_error(); interpret(ast, env)
MainRun ==
    /\ mode = "main"
    /\ pc = "parsed"
    /\ env' = env_create
    /\ interpreter_clear_error
    /\ stack' = <<Frame(ast, <<>>)>>
    /\ log' = <<>>
    /\ before' = Snapshot(env_create, 0, NoMsg)
    /\ pc' = "interpret"
    /\ UNCHANGED <<mode, source, lexer, heap, parser, ast, ret, result, out, exit_code,
                   last_set, last_op>>

\* main: interpret has returned; the exit code
MainExit ==
    /\ mode = "main"
    /\ pc = "interpret"
    /\ ~Running
    /\ exit_code' = IF interpreter_has_error # 0 THEN 1 ELSE exit_code
    /\ pc' = "done"
    /\ UNCHANGED <<mode, source, lexer, heap, parser, ast, before, last_set, last_op>>
    /\ UNCHANGED interpVars

\* A test: interpret(ast, env)
TestCall ==
    /\ mode = "test"
    /\ pc = "fresh"
    /\ stack' = <<Frame(ast, <<>>)>>
    /\ log' = <<>>
    /\ before' = Snapshot(env, interpreter_error, interpreter_error_msg)
    /\ pc' = "call1"
    /\ UNCHANGED <<mode, source, lexer, heap, parser, ast, env, interpreter_error,
                   interpreter_error_msg, ret, result, out, exit_code,
                   last_set, last_op>>

\* A test: interpreter_clear_error() between two calls
TestClearError ==
    /\ mode = "test"
    /\ pc = "call1"
    /\ ~Running
    /\ interpreter_clear_error
    /\ pc' = "cleared"
    /\ UNCHANGED <<mode, source, lexer, heap, parser, ast, env, stack, ret, result, out,
                   exit_code, log, before, last_set, last_op>>

\* A test: a second interpret(node, env) on the same Environment
TestCallAgain ==
    /\ mode = "test"
    /\ pc \in {"call1", "cleared"}
    /\ ~Running
    /\ \E node \in AgainAsts :
          /\ ast' = node
          /\ stack' = <<Frame(node, <<>>)>>
    /\ log' = <<>>
    /\ before' = Snapshot(env, interpreter_error, interpreter_error_msg)
    /\ pc' = "call2"
    /\ UNCHANGED <<mode, source, lexer, heap, parser, env, interpreter_error,
                   interpreter_error_msg, ret, result, out, exit_code,
                   last_set, last_op>>

Unused == [type |-> "unused"]

Init ==
    /\ mode \in {"main", "test"}
    /\ IF mode = "main"
       THEN /\ source \in Sources
            /\ pc = "start"
            /\ ast = NULL
            /\ env = NULL
       ELSE /\ source = <<>>
            /\ pc = "fresh"
            /\ ast \in TestAsts
            /\ env \in TestEnvs
    /\ parser = NULL
    /\ lexer = NULL
    /\ heap = NewHeap(0)
    /\ interpreter_error = 0
    /\ interpreter_error_msg = NoMsg
    /\ stack = <<>>
    /\ ret = Zero
    /\ result = Unused
    /\ out = <<>>
    /\ exit_code = 0
    /\ log = <<>>
    /\ before = Unused
    /\ last_set = <<>>
    /\ last_op = Unused

Next ==
    \/ MainParse
    \/ MainRun
    \/ MainExit
    \/ TestCall
    \/ TestClearError
    \/ TestCallAgain
    \/ InterpretStep

Spec == Init /\ [][Next]_vars

---------------------------------------------------------------------------
(***************************************************************************)
(* Direct calls of env_set and env_get on one Environment, as              *)
(* src/test/test_env.c makes them                                          *)
(***************************************************************************)
\* The most names one Environment is given.
MaxNames == 9

DigitChar(d) ==
    CASE d = 0 -> "0" [] d = 1 -> "1" [] d = 2 -> "2" [] d = 3 -> "3"
      [] d = 4 -> "4" [] d = 5 -> "5" [] d = 6 -> "6" [] d = 7 -> "7"
      [] d = 8 -> "8" [] d = 9 -> "9"

\* snprintf(var_name, sizeof(var_name), "var%d", i)
VarName(i) ==
    <<"v", "a", "r">>
    \o (IF i < 10 THEN <<DigitChar(i)>>
        ELSE <<DigitChar(i \div 10), DigitChar(i % 10)>>)

id_undefined == <<"u", "n", "d", "e", "f", "i", "n", "e", "d">>

\* The names env_set is called with, and one it never is.
SetNames == {VarName(i) : i \in 0..(MaxNames - 1)}
GetNames == SetNames \cup {id_undefined}

EnvValues == {Num(1), Num(2)}

Unset == [type |-> "unset"]

otherVars == <<source, lexer, parser, ast, heap, interpreter_error, interpreter_error_msg,
               stack, ret, result, out, exit_code, log, before>>

\* env_set(env, name, value).  Names are told apart by strcmp only, so a name
\* new to the Environment is taken to be the next of var0, var1, ...
EnvSet ==
    /\ mode = "env"
    /\ \E i \in 0..(MaxNames - 1), value \in EnvValues :
          /\ i <= Len(env.variables)
          /\ LET name == VarName(i)
                 s == env_set(env, name, value)
             IN  /\ env' = s.env
                 /\ last_set' = IF s.ok # 0
                                THEN [last_set EXCEPT ![name] = value]
                                ELSE last_set
                 /\ last_op' = [op |-> "env_set", name |-> name, ok |-> s.ok,
                                value |-> value, was |-> env]
    /\ UNCHANGED <<mode, pc>>
    /\ UNCHANGED otherVars

\* env_get(env, name, &value)
EnvGet ==
    /\ mode = "env"
    /\ \E name \in GetNames :
          LET g == env_get(env, name)
          IN  last_op' = [op |-> "env_get", name |-> name, ok |-> g.ok,
                          value |-> g.value, was |-> env]
    /\ UNCHANGED <<mode, pc, env, last_set>>
    /\ UNCHANGED otherVars

InitEnv ==
    /\ mode = "env"
    /\ pc = "env"
    /\ env = env_create
    /\ last_set = [name \in GetNames |-> Unset]
    /\ last_op = [op |-> "none", name |-> NULL_TEXT, ok |-> 0, value |-> Zero,
                  was |-> env_create]
    /\ source = <<>>
    /\ parser = NULL
    /\ lexer = NULL
    /\ ast = NULL
    /\ heap = NewHeap(0)
    /\ interpreter_error = 0
    /\ interpreter_error_msg = NoMsg
    /\ stack = <<>>
    /\ ret = Zero
    /\ result = Unused
    /\ out = <<>>
    /\ exit_code = 0
    /\ log = <<>>
    /\ before = Unused

NextEnv ==
    \/ EnvSet
    \/ EnvGet

SpecEnv == InitEnv /\ [][NextEnv]_vars

(***************************************************************************)
(* The parser and ast_destroy under test, as src/test/test_parser.c and    *)
(* src/test/test_ast.c call them, with the heap followed and with an       *)
(* allocation that may fail.                                               *)
(*                                                                         *)
(* mode "parser": parser_parse on a fresh Parser, then one more parsing    *)
(* call on the same Parser, then ast_destroy of what they returned.        *)
(* mode "ast": a tree built with the constructors, then ast_destroy.       *)
(***************************************************************************)
\* The allocation calls one of which may fail: the first MaxAllocs.
MaxAllocs == 12

ParserSources == Scripts \cup {Expr2(id_x, <<"+">>, <<"3">>)}

ParsingCalls ==
    {"parser_parse", "parse_statement", "parse_let_declaration",
     "parse_print_call", "parse_expression", "parse_term", "parse_factor"}

\* The parsing function of the given name called on the Parser
ParsingCall(name, p, h) ==
    CASE name = "parser_parse" -> parser_parse(p, h)
      [] name = "parse_statement" -> parse_statement(p, h)
      [] name = "parse_let_declaration" -> parse_let_declaration(p, h)
      [] name = "parse_print_call" -> parse_print_call(p, h)
      [] name = "parse_expression" -> parse_expression(p, h)
      [] name = "parse_term" -> parse_term(p, h)
      [] name = "parse_factor" -> parse_factor(p, h)

RECURSIVE Build(_, _), BuildStatements(_, _, _)

\* The heap after ast_program_add_statement of each statement, built first
BuildStatements(h, program, statements) ==
    IF statements = <<>> THEN h
    ELSE BuildStatements(
             add_statement(Build(h, Head(statements)), program,
                           Head(statements)).heap,
             ast_program_add_statement(program, Head(statements)),
             Tail(statements))

\* The heap after a test has built the tree of node with the constructors,
\* the children before their parent
Build(h, node) ==
    IF node = NULL THEN h
    ELSE CASE node.type = "AST_BINARY_OP" ->
                 Create(Build(Build(h, node.left), node.right), node).heap
           [] node.type = "AST_LET_DECL" ->
                 Create(Build(h, node.value), node).heap
           [] node.type = "AST_PRINT_CALL" ->
                 Create(Build(h, node.print_arg), node).heap
           [] node.type = "AST_IF_STMT" ->
                 Create(Build(Build(Build(h, node.condition), node.if_branch),
                              node.else_branch), node).heap
           [] node.type = "AST_PROGRAM" ->
                 BuildStatements(Create(h, ast_create_program).heap,
                                 ast_create_program, node.statements)
           [] OTHER -> Create(h, node).heap

memVars == <<env, interpreter_error, interpreter_error_msg, stack, ret,
             result, out, exit_code, log, last_set>>

\* What the first call gave: the Parser, the heap and the node
ParserSnapshot == [parser |-> parser, heap |-> heap, ast |-> ast]

\* The test after parser_parse gave r
ParserParsed(r) ==
    /\ parser' = r.parser
    /\ ast' = r.node
    /\ heap' = r.heap

\* lexer_create, parser_create, parser_parse
ParserParse ==
    /\ mode = "parser"
    /\ pc = "start"
    /\ ParserParsed(parser_parse(parser_create(lexer_create(source)), heap))
    /\ pc' = "parsed"
    /\ UNCHANGED <<mode, source, lexer, before, last_op>>
    /\ UNCHANGED memVars

\* The test after its second parsing call gave r
ParserCalledAgain(name, r) ==
    /\ parser' = r.parser
    /\ heap' = r.heap
    /\ last_op' = [op |-> name, node |-> r.node]

\* One more parsing call on the same Parser
ParserAgain ==
    /\ mode = "parser"
    /\ pc = "parsed"
    /\ \E name \in ParsingCalls :
          ParserCalledAgain(name, ParsingCall(name, parser, heap))
    /\ before' = ParserSnapshot
    /\ pc' = "again"
    /\ UNCHANGED <<mode, source, lexer, ast>>
    /\ UNCHANGED memVars

\* ast_destroy of what the calls returned, then parser_destroy
ParserDestroy ==
    /\ mode = "parser"
    /\ pc \in {"parsed", "again"}
    /\ heap' = IF pc = "again"
               THEN ast_destroy(ast_destroy(heap, ast), last_op.node)
               ELSE ast_destroy(heap, ast)
    /\ parser' = parser_destroy(parser)
    /\ pc' = "destroyed"
    /\ UNCHANGED <<mode, source, lexer, ast, before, last_op>>
    /\ UNCHANGED memVars

\* ast_destroy(root) of a tree the test built
AstDestroy ==
    /\ mode = "ast"
    /\ pc = "built"
    /\ heap' = ast_destroy(heap, ast)
    /\ pc' = "destroyed"
    /\ UNCHANGED <<mode, source, lexer, parser, ast, before, last_op>>
    /\ UNCHANGED memVars

InitMem ==
    /\ mode \in {"parser", "ast"}
    /\ IF mode = "parser"
       THEN /\ source \in ParserSources
            /\ pc = "start"
            /\ ast = NULL
            /\ \E fail_at \in 0..MaxAllocs : heap = NewHeap(fail_at)
       ELSE /\ source = <<>>
            /\ pc = "built"
            /\ ast \in TestAsts
            /\ heap = Build(NewHeap(0), ast)
    /\ parser = NULL
    /\ lexer = NULL
    /\ before = Unused
    /\ last_op = Unused
    /\ env = NULL
    /\ interpreter_error = 0
    /\ interpreter_error_msg = NoMsg
    /\ stack = <<>>
    /\ ret = Zero
    /\ result = Unused
    /\ out = <<>>
    /\ exit_code = 0
    /\ log = <<>>
    /\ last_set = <<>>

NextMem ==
    \/ ParserParse
    \/ ParserAgain
    \/ ParserDestroy
    \/ AstDestroy

SpecMem == InitMem /\ [][NextMem]_vars

(***************************************************************************)
(* The lexer under test, as src/test/test_lexer.c calls it: lexer_create   *)
(* on a source, then lexer_next_token again and again, also after it has   *)
(* returned TOKEN_EOF.                                                     *)
(***************************************************************************)
\* The longest source made of every combination of LexChars
MaxLen == 3
\* The longest run of the characters that start a comparison operator
MaxRun == 4
\* The calls of lexer_next_token made after it has returned TOKEN_EOF
MaxEofCalls == 2

LexChars == {"=", ">", "!", "1", ".", "a", " ", "\n", "&"}
OperatorChars == {"=", ">", "<", "!"}

Strings(chars, n) == UNION {[1..k -> chars] : k \in 0..n}

Repeat(c, n) == [i \in 1..n |-> c]

\* Numbers and identifiers as long as the buffer of lexer_read_number and
\* lexer_read_identifier or longer.  The digits are zeros but for the last
\* ones, so that the numbers stay small.
Zeros(n) == Repeat("0", n)
As(n) == Repeat("a", n)

LongSources ==
    {Zeros(BufferCap - 1) \o <<"1">>,
     Zeros(BufferCap - 1) \o <<"1", "2">>,
     Zeros(BufferCap - 1) \o <<"1", "2", "3", " ", "4">>,
     Zeros(BufferCap - 1) \o <<"1", ".">>,
     Zeros(BufferCap - 1) \o <<"1", ".", "5">>,
     <<" ">> \o Zeros(BufferCap - 1) \o <<"1", ".", "5", "+", "a">>,
     Zeros(BufferCap - 3) \o <<"1", ".", "5">>,
     Zeros(BufferCap - 3) \o <<"1", ".", "2", "5">>,
     Zeros(BufferCap - 3) \o <<"1", ".", "2", "5", "7", ";">>,
     As(BufferCap),
     As(BufferCap) \o <<"b">>,
     As(BufferCap) \o <<"b", "c", " ", "d">>,
     As(BufferCap) \o <<"1", "2">>,
     <<"\n">> \o As(BufferCap - 1) \o <<"_", "b", "=", "1">>}

NamedLexSources ==
    {<<"+", "-", "*", "/", "(", ")", ";">>,
     <<"=", "=", "=", "=">>, <<">", "=", "<", "=">>,
     <<"1", ".", "5", ".", "2">>, <<"1", "2", ".", " ", "3">>,
     <<"l", "e", "t", " ", "_", "x", "1", "\t", "=", "\n", " ", "4", "2", ";">>,
     <<"a", "\n", "\n", " ", " ", "@", "b", "\r", "\n", "#", "\n">>,
     <<"x", " ", "!", "=", " ", "y", " ", "!", " ", "&", "&", " ", "!", "a">>}

LexSources ==
    Strings(LexChars, MaxLen) \cup Strings(OperatorChars, MaxRun)
    \cup LongSources \cup NamedLexSources \cup Scripts

\* The TOKEN_EOF tokens the calls have returned so far
EofTokens == Len(SelectSeq(log, LAMBDA call : call.token.type = "TOKEN_EOF"))

\* The test after lexer_next_token(lexer) returned r
LexReturned(r) ==
    /\ lexer' = r.lexer
    /\ log' = Append(log, [was |-> lexer, token |-> r.token,
                           written |-> r.written])
    /\ pc' = pc

\* lexer_next_token(lexer) built r.  A call that wrote past the end of its
\* buffer has undefined behaviour: the builds either carry on, the byte
\* after the buffer being one the function does not use, or stop the
\* program at the write (a build with -fsanitize=address does).
LexCalled(r) ==
    \/ LexReturned(r)
    \/ /\ r.written > BufferSize
       /\ pc' = "crashed"
       /\ UNCHANGED <<lexer, log>>

\* Token token = lexer_next_token(lexer)
LexNextToken ==
    /\ mode = "lexer"
    /\ pc = "lexing"
    /\ EofTokens <= MaxEofCalls
    /\ LexCalled(lexer_next_token(lexer))
    /\ UNCHANGED <<mode, source, parser, ast, heap, env, interpreter_error,
                   interpreter_error_msg, stack, ret, result, out, exit_code,
                   before, last_set, last_op>>

InitLex ==
    /\ mode = "lexer"
    /\ pc = "lexing"
    /\ source \in LexSources
    /\ lexer = lexer_create(source)
    /\ log = <<>>
    /\ parser = NULL
    /\ ast = NULL
    /\ heap = NewHeap(0)
    /\ env = NULL
    /\ interpreter_error = 0
    /\ interpreter_error_msg = NoMsg
    /\ stack = <<>>
    /\ ret = Zero
    /\ result = Unused
    /\ out = <<>>
    /\ exit_code = 0
    /\ before = Unused
    /\ last_set = <<>>
    /\ last_op = Unused

NextLex == LexNextToken

SpecLex == InitLex /\ [][NextLex]_vars

---------------------------------------------------------------------------
(***************************************************************************)
(* Properties                                                              *)
(***************************************************************************)
\* The words of a text that single spaces separate.
RECURSIVE WordsFrom(_, _, _)
WordsFrom(text, i, word) ==
    IF i > Len(text) THEN <<word>>
    ELSE IF text[i] = " " THEN <<word>> \o WordsFrom(text, i + 1, <<>>)
    ELSE WordsFrom(text, i + 1, Append(word, text[i]))

Words(text) == WordsFrom(text, 1, <<>>)

\* The leaf an operand text stands for.
OperandLeaf(text) ==
    CASE text = <<"2">> -> N(2)
      [] text = <<"3">> -> N(3)
      [] text = <<"4">> -> N(4)
      [] text = lit_1_5 -> ast_create_number(Rat(3, 2))
      [] OTHER -> Id(text)

\* 2 for '*' and '/', 1 for '+' and '-'
Binding(op) == IF op \in {<<"*">>, <<"/">>} THEN 2 ELSE 1

\* The tree the grammar gives "a op1 b op2 c": the tighter operator below, and
\* the left one below when both bind alike.
ExpectedTree(a, op1, b, op2, c) ==
    IF Binding(op2) > Binding(op1)
    THEN Bin(OperandLeaf(a), op1[1], Bin(OperandLeaf(b), op2[1], OperandLeaf(c)))
    ELSE Bin(Bin(OperandLeaf(a), op1[1], OperandLeaf(b)), op2[1], OperandLeaf(c))

\* main has parsed the source "a op1 b op2 c" of two arithmetic operators, a
\* among the operands firsts.
ParsedArith3(firsts) ==
    /\ mode = "main"
    /\ pc # "start"
    /\ Len(Words(source)) = 5
    /\ Words(source)[1] \in firsts
    /\ Words(source)[3] \in OperandTexts
    /\ Words(source)[5] \in OperandTexts
    /\ Words(source)[2] \in ArithTexts
    /\ Words(source)[4] \in ArithTexts

\* parser_parse gave a Program of the one statement ExpectedTree.
ParsedAsExpected ==
    LET w == Words(source)
    IN  /\ ast.type = "AST_PROGRAM"
        /\ ast.statements = <<ExpectedTree(w[1], w[2], w[3], w[4], w[5])>>
        /\ parser_has_error(parser) = 0

\* "2 + 3 * 4" has run to the end and its value is x.
EvaluatesTo(x) ==
    (/\ mode = "main"
     /\ pc = "done"
     /\ source = Expr3(<<"2">>, <<"+">>, <<"3">>, <<"*">>, <<"4">>))
    => (result = x /\ interpreter_has_error = 0 /\ exit_code = 0)

\* C1, as stated: for all operands a, b, c (numbers or identifiers) and
\* arithmetic operators, parser_parse gives "a op1 b op2 c" the tree in which
\* '*' and '/' bind tighter than '+' and '-' and equal operators group to the
\* left, and "2 + 3 * 4" evaluates to 14.  Refuted by a = print.
C1_AsStated ==
    /\ ParsedArith3(OperandTexts) => ParsedAsExpected
    /\ EvaluatesTo(Num(14))

\* C1, amended: the same for every first operand but the identifier print,
\* which at the start of a statement selects the print-call production.
C1_Precedence ==
    /\ ParsedArith3(OperandTexts \ {kw_print}) => ParsedAsExpected
    /\ EvaluatesTo(Num(14))

\* "2 - 3 - 4" parsed as (2 - 3) - 4 and evaluated to -5.
C1_Witness ==
    /\ ParsedArith3({<<"2">>})
    /\ pc = "done"
    /\ source = Expr3(<<"2">>, <<"-">>, <<"3">>, <<"-">>, <<"4">>)
    /\ ast.statements = <<Bin(Bin(N(2), "-", N(3)), "-", N(4))>>
    /\ result = Num(-5)

\* ---- what the log of the current top-level call of interpret tells ----
IsPrefix(p, q) == Len(p) <= Len(q) /\ SubSeq(q, 1, Len(p)) = p

\* The places of the log where the events of kind e stand.
Where(e) == {k \in DOMAIN log : log[k].e = e}

\* The events of the subtree at path p.
Under(p) == {k \in DOMAIN log : IsPrefix(p, log[k].path)}

\* The node at path p has returned; the value it returned.
Exited(p) == \E k \in Where("exit") : log[k].path = p
ExitValue(p) == log[CHOOSE k \in Where("exit") : log[k].path = p].arg

\* The subtree at path p set the error flag.
FailedUnder(p) == Where("error") \cap Under(p) # {}

\* The lines printed by the call so far.
PrintedLines ==
    LET prints == SelectSeq(log, LAMBDA ev : ev.e = "print")
    IN  [i \in 1..Len(prints) |-> [format |-> "%.15g\n", value |-> prints[i].arg]]

Last(S) == CHOOSE m \in S : \A x \in S : x <= m

\* What env_get gives for name after the stores of the call so far.
StoresOf(name) == {k \in Where("store") : log[k].arg[1] = name}
BoundAfterStores(name) ==
    IF StoresOf(name) # {}
    THEN [ok |-> 1, value |-> log[Last(StoresOf(name))].arg[2]]
    ELSE env_get(before.env, name)

EnvNames == {id_x, id_y, id_undefined_var}

\* Every print and every store of the call so far is in place.
EffectsRemain ==
    /\ out = before.out \o PrintedLines
    /\ \A name \in EnvNames : env_get(env, name) = BoundAfterStores(name)

\* The node of tree at path.
RECURSIVE NodeAt(_, _)
NodeAt(tree, path) ==
    IF path = <<>> THEN tree
    ELSE LET child ==
               CASE tree.type = "AST_BINARY_OP" ->
                        IF path[1] = 1 THEN tree.left ELSE tree.right
                 [] tree.type = "AST_LET_DECL" -> tree.value
                 [] tree.type = "AST_PRINT_CALL" -> tree.print_arg
                 [] tree.type = "AST_PROGRAM" -> tree.statements[path[1]]
         IN  NodeAt(child, Tail(path))

\* interpret works on a root of the given type with an Environment.
CallOn(type) == log # <<>> /\ ast.type = type /\ before.env # NULL

\* C2: interpret on a Program runs the statements in declared order on the one
\* Environment, each to its end before the next; after the first statement
\* that sets the error flag nothing more is evaluated, printed or stored; the
\* prints and stores made so far stay; with no failure the result is the last
\* statement's value.
C2_ProgramSequence ==
    CallOn("AST_PROGRAM") =>
        LET n == Len(ast.statements)
        IN  /\ \A k \in DOMAIN log :
                  log[k].path # <<>> =>
                      LET j == log[k].path[1]
                      IN  /\ j \in 1..n
                          /\ \A h \in 1..(k - 1) :
                                log[h].path # <<>> => log[h].path[1] <= j
                          /\ (log[k].e = "enter" /\ log[k].path = <<j>>) =>
                                /\ log[k].arg = ast.statements[j].type
                                /\ \A i \in 1..(j - 1) :
                                      Exited(<<i>>) /\ ~FailedUnder(<<i>>)
            /\ \A k \in Where("error") :
                  \A h \in (k + 1)..Len(log) : log[h].e = "exit"
            /\ EffectsRemain
            /\ (~Running /\ Where("error") = {}) =>
                  result = IF n = 0 THEN Zero ELSE ExitValue(<<n>>)

\* A Program of three statements whose second failed after the first printed
\* or stored: the third was never entered.
C2_Witness ==
    /\ CallOn("AST_PROGRAM")
    /\ ~Running
    /\ Len(ast.statements) = 3
    /\ FailedUnder(<<2>>)
    /\ Where("print") \cup Where("store") # {}
    /\ Under(<<3>>) = {}
    /\ result = Zero

\* C3: at every BinaryOp node the left operand is evaluated to its end before
\* anything of the right operand; when the left operand sets the error flag
\* nothing of the right operand is evaluated, printed or stored, and the
\* message is the one the left operand set.
C3_LeftBeforeRight ==
    \A k \in Where("enter") :
        log[k].arg = "AST_BINARY_OP" =>
            LET left == Append(log[k].path, 1)
                right == Append(log[k].path, 2)
            IN  /\ Under(right) # {} => Exited(left)
                /\ \A i \in Under(left), j \in Under(right) : i < j
                /\ \A i \in Where("error") \cap Under(left) :
                      /\ Under(right) = {}
                      /\ pc # "cleared" =>
                            /\ interpreter_has_error = 1
                            /\ interpreter_get_error = log[i].arg

\* A BinaryOp whose left operand failed and whose right operand would have
\* printed.
C3_Witness ==
    /\ CallOn("AST_BINARY_OP")
    /\ ~Running
    /\ ast.right = ast_create_print_call(N(1))
    /\ FailedUnder(<<1>>)
    /\ interpreter_get_error = Msg("Undefined variable: %s", id_undefined_var)
    /\ out = <<>>

\* C4: within one top-level call of interpret, from the first error on, every
\* event is the return of 0.0 by an enclosing call (no node is entered, nothing
\* is printed or stored, no second error is set), the flag stays set and the
\* message stays the first one until the caller clears it, and the top-level
\* call returns 0.0.
C4_FirstErrorWins ==
    \A k \in Where("error") :
        /\ \A h \in (k + 1)..Len(log) : log[h].e = "exit" /\ log[h].arg = Zero
        /\ pc # "cleared" =>
              /\ interpreter_has_error = 1
              /\ interpreter_get_error = log[k].arg
        /\ ~Running => result = Zero

\* An error three calls deep, returned through the enclosing calls.
C4_Witness ==
    /\ ~Running
    /\ pc = "call1"
    /\ \E k \in Where("error") : Len(log[k].path) >= 2 /\ Len(log) >= k + 3
    /\ interpreter_has_error = 1
    /\ result = Zero

\* The root LetDecl has returned.
LetReturned == CallOn("AST_LET_DECL") /\ ~Running

\* The value was stored under the name of the root LetDecl and returned.
LetBound ==
    /\ result = ExitValue(<<1>>)
    /\ env_get(env, ast.name) = [ok |-> 1, value |-> result]
    /\ Cardinality({i \in DOMAIN env.variables :
                       env.variables[i].name = ast.name}) = 1
    /\ Cardinality(Where("store")) = 1 =>
          Len(env.variables) =
              Len(before.env.variables)
              + (IF env_get(before.env, ast.name).ok = 1 THEN 0 ELSE 1)

\* The error of the value expression is the error of the LetDecl.
LetPropagates ==
    /\ result = Zero
    /\ pc # "cleared" => interpreter_has_error = 1

C6_Division ==
    \A k \in Where("enter") :
        LET p == log[k].path
            left == Append(p, 1)
            right == Append(p, 2)
        IN  (/\ log[k].arg = "AST_BINARY_OP"
             /\ NodeAt(ast, p).operator = "/"
             /\ Exited(p) /\ Exited(left) /\ Exited(right)
             /\ ~FailedUnder(left) /\ ~FailedUnder(right)) =>
                /\ IF ExitValue(right) = Zero
                   THEN /\ ExitValue(p) = Zero
                        /\ \E e \in Where("error") :
                              /\ log[e].path = p
                              /\ log[e].arg = Msg("Division by zero", <<>>)
                        /\ pc # "cleared" =>
                              /\ interpreter_has_error = 1
                              /\ interpreter_get_error =
                                     Msg("Division by zero", <<>>)
                   ELSE /\ ~\E e \in Where("error") : log[e].path = p
                        /\ DMul(ExitValue(p), ExitValue(right)) = ExitValue(left)
                /\ (p = <<>> /\ ~Running) => result = ExitValue(p)

\* -2 / (2 - 2): a negative dividend over a computed zero.
C6_Witness ==
    /\ ~Running
    /\ pc = "call1"
    /\ ast = Bin(N(-2), "/", Bin(N(2), "-", N(2)))
    /\ before.env # NULL
    /\ interpreter_get_error = Msg("Division by zero", <<>>)
    /\ result = Zero

\* The names of the entries of an Environment, in the array's order.
EntryNames(e) == [i \in DOMAIN e.variables |-> e.variables[i].name]

\* C7: after any sequence of env_set calls, env_get gives every name that was
\* set the value of its latest env_set and finds no name that never was; the
\* entries fit the array, grown past 8 when needed; no two entries share a
\* name; env_set on a bound name changes that entry's value in place and
\* leaves the count and every other entry alone.
C7_EnvRoundTrip ==
    mode = "env" =>
        /\ \A name \in GetNames :
              IF last_set[name] = Unset
              THEN env_get(env, name).ok = 0
              ELSE env_get(env, name) = [ok |-> 1, value |-> last_set[name]]
        /\ Len(env.variables) <= env.capacity
        /\ \A i, j \in DOMAIN env.variables :
              i # j => env.variables[i].name # env.variables[j].name
        /\ last_op.op = "env_get" =>
              IF last_set[last_op.name] = Unset THEN last_op.ok = 0
              ELSE last_op.ok = 1 /\ last_op.value = last_set[last_op.name]
        /\ last_op.op = "env_set" =>
              /\ last_op.ok = 1
              /\ env_get(env, last_op.name) = [ok |-> 1, value |-> last_op.value]
              /\ env_get(last_op.was, last_op.name).ok = 1 =>
                    /\ Len(env.variables) = Len(last_op.was.variables)
                    /\ EntryNames(env) = EntryNames(last_op.was)
                    /\ \A i \in DOMAIN env.variables :
                          env.variables[i].name # last_op.name =>
                              env.variables[i] = last_op.was.variables[i]
              /\ env_get(last_op.was, last_op.name).ok = 0 =>
                    /\ Len(env.variables) = Len(last_op.was.variables) + 1
                    /\ SubSeq(env.variables, 1, Len(last_op.was.variables))
                           = last_op.was.variables

\* Nine names in an array grown to 16, the first of them just overwritten.
C7_Witness ==
    /\ mode = "env"
    /\ Len(env.variables) = INITIAL_CAPACITY + 1
    /\ env.capacity = 2 * INITIAL_CAPACITY
    /\ last_op.op = "env_set"
    /\ last_op.name = VarName(0)
    /\ env_get(last_op.was, VarName(0)) = [ok |-> 1, value |-> Num(1)]
    /\ env_get(env, VarName(0)) = [ok |-> 1, value |-> Num(2)]

\* l < r for two doubles
DLess(l, r) == l.n * r.d < r.n * l.d

\* l op r for the six comparison tags.
Compare(tag, l, r) ==
    CASE tag = ">" -> DLess(r, l)
      [] tag = "<" -> DLess(l, r)
      [] tag = "G" -> ~DLess(l, r)
      [] tag = "L" -> ~DLess(r, l)
      [] tag = "E" -> l = r
      [] tag = "N" -> l # r

\* C8, as stated: a BinaryOp with one of the tags '>', '<', 'G', 'L', 'E', 'N'
\* whose operands evaluated to l and r sets no error and returns 1.0 when the
\* comparison of l and r is true, 0.0 when it is false.  Refuted: the switch
\* of interpret has no case for these tags.
C8_AsStated ==
    \A k \in Where("enter") :
        LET p == log[k].path
            left == Append(p, 1)
            right == Append(p, 2)
        IN  (/\ log[k].arg = "AST_BINARY_OP"
             /\ NodeAt(ast, p).operator \in ComparisonTags
             /\ Exited(p) /\ Exited(left) /\ Exited(right)
             /\ ~FailedUnder(left) /\ ~FailedUnder(right)) =>
                /\ ~FailedUnder(p)
                /\ ExitValue(p) =
                       IF Compare(NodeAt(ast, p).operator, ExitValue(left),
                                  ExitValue(right))
                       THEN One ELSE Zero

\* One line of output.
Line(value) == [format |-> "%.15g\n", value |-> value]

\* What a branch of the hand-built IfStmt nodes does to stdout and to the
\* Environment when it runs; NULL is no branch.
BranchOut(branch) ==
    IF branch.type = "AST_PRINT_CALL" THEN <<Line(branch.print_arg.number)>>
    ELSE <<>>
BranchEnv(branch, e) ==
    IF branch.type = "AST_LET_DECL"
    THEN env_set(e, branch.name, branch.value.number).env
    ELSE e

\* C9, as stated: an IfStmt runs exactly its then branch when the condition is
\* nonzero, exactly its else branch when it is zero and there is one, and
\* nothing otherwise, with no error; "if (0) print(1) else print(2);" prints
\* the one line 2 and "if (0) print(42);" prints nothing and succeeds.
\* Refuted: interpret has no case for an IfStmt and the lexer no keyword if.
C9_AsStated ==
    /\ (/\ CallOn("AST_IF_STMT")
        /\ ~Running
        /\ ast.condition.type = "AST_NUMBER") =>
            LET chosen == IF ast.condition.number # Zero THEN ast.if_branch
                          ELSE ast.else_branch
            IN  /\ Where("error") = {}
                /\ out = before.out \o BranchOut(chosen)
                /\ env = BranchEnv(chosen, before.env)
    /\ (mode = "main" /\ pc = "done" /\ source = Script_if_false_else) =>
            out = <<Line(Num(2))>> /\ exit_code = 0
    /\ (mode = "main" /\ pc = "done" /\ source = Script_if_false) =>
            out = <<>> /\ exit_code = 0

\* The tag of an operator's text.
TagOf(op) ==
    CASE op = <<">", "=">> -> "G"
      [] op = <<"<", "=">> -> "L"
      [] op = <<"=", "=">> -> "E"
      [] op = <<"!", "=">> -> "N"
      [] OTHER -> op[1]

\* 0 for a comparison, 1 for '+' and '-', 2 for '*' and '/'
Binding3(op) == IF op \in ComparisonTexts THEN 0 ELSE Binding(op)

\* The tree the grammar with comparisons gives "a op1 b op2 c".
ExpectedTree3(a, op1, b, op2, c) ==
    IF Binding3(op2) > Binding3(op1)
    THEN Bin(OperandLeaf(a), TagOf(op1),
             Bin(OperandLeaf(b), TagOf(op2), OperandLeaf(c)))
    ELSE Bin(Bin(OperandLeaf(a), TagOf(op1), OperandLeaf(b)), TagOf(op2),
             OperandLeaf(c))

\* main has parsed a source of the given number of words whose first is not
\* print and whose operators include a comparison.
ParsedComparison(n) ==
    /\ mode = "main"
    /\ pc # "start"
    /\ Len(Words(source)) = n
    /\ Words(source)[1] \in OperandTexts \ {kw_print}
    /\ \A i \in 1..n : Words(source)[i] \in OperandTexts \cup OperatorTexts
    /\ \E i \in 1..n : Words(source)[i] \in ComparisonTexts

\* C10, as stated: parser_parse gives "a op b" with a comparison operator the
\* BinaryOp tagged '>', '<', 'G', 'L', 'E' or 'N'; comparisons bind looser
\* than '+' and '-' and group to the left: "5 + 3 > 2 * 4" is (5+3) > (2*4)
\* and "1 < 2 < 3" is (1<2) < 3.  Refuted: the parser has no production for
\* a comparison.
C10_AsStated ==
    LET w == Words(source)
    IN  /\ ParsedComparison(3) =>
              /\ ast.type = "AST_PROGRAM"
              /\ ast.statements =
                     <<Bin(OperandLeaf(w[1]), TagOf(w[2]), OperandLeaf(w[3]))>>
        /\ ParsedComparison(5) =>
              /\ ast.type = "AST_PROGRAM"
              /\ ast.statements =
                     <<ExpectedTree3(w[1], w[2], w[3], w[4], w[5])>>
        /\ (mode = "main" /\ pc # "start" /\ source = Script_cmp_precedence) =>
              /\ ast.type = "AST_PROGRAM"
              /\ ast.statements =
                     <<Bin(Bin(N(5), "+", N(3)), ">", Bin(N(2), "*", N(4)))>>
        /\ (mode = "main" /\ pc # "start" /\ source = Script_cmp_chain) =>
              /\ ast.type = "AST_PROGRAM"
              /\ ast.statements = <<Bin(Bin(N(1), "<", N(2)), "<", N(3))>>

\* main has parsed the source.
MainParsedSource(s) == mode = "main" /\ pc # "start" /\ source = s

\* The Program of the one statement stmt
OneStatement(stmt) == ast.type = "AST_PROGRAM" /\ ast.statements = <<stmt>>

\* C11, as stated: parser_parse gives "if ( expression ) statement", with or
\* without "else statement", a Program of exactly one IfStmt that holds the
\* condition, the then branch and the else branch or NULL; a malformed if
\* (no '(', no ')', no condition, no branch) gives NULL with the error flag
\* set.  Refuted: parse_statement has no production for an if statement.
C11_AsStated ==
    /\ MainParsedSource(Script_if_true) =>
          OneStatement(ast_create_if_stmt(N(1), ast_create_print_call(N(42)),
                                          NULL))
    /\ MainParsedSource(Script_if_false) =>
          OneStatement(ast_create_if_stmt(N(0), ast_create_print_call(N(42)),
                                          NULL))
    /\ MainParsedSource(Script_if_true_else) =>
          OneStatement(ast_create_if_stmt(N(1), ast_create_print_call(N(1)),
                                          ast_create_print_call(N(2))))
    /\ MainParsedSource(Script_if_false_else) =>
          OneStatement(ast_create_if_stmt(N(0), ast_create_print_call(N(1)),
                                          ast_create_print_call(N(2))))
    /\ (mode = "main" /\ pc # "start" /\ source \in MalformedIfs) =>
          ast = NULL /\ parser_has_error(parser) # 0

\* The second parsing call was made on a Parser that held an error, and no
\* allocation fails.
AgainAfterError ==
    /\ mode = "parser"
    /\ pc = "again"
    /\ heap.fail_at = 0
    /\ before.parser.has_error # 0

\* C12, as stated: once a Parser holds an error, every later parsing call on
\* it, a second parser_parse included, returns NULL (not even an empty
\* Program), consumes no token and leaves the message as it was.  Refuted:
\* parser_parse does not look at the flag before ast_create_program.
C12_AsStated ==
    AgainAfterError =>
        /\ last_op.node = NULL
        /\ parser.current_token = before.parser.current_token
        /\ parser.lookahead_token = before.parser.lookahead_token
        /\ parser.lexer = before.parser.lexer
        /\ parser.has_error # 0
        /\ parser.error_message = before.parser.error_message

\* main's parser_parse has failed.
ParseFailed ==
    /\ mode = "main"
    /\ pc # "start"
    /\ (ast = NULL \/ parser_has_error(parser) # 0)

\* The message the Parser holds: the position and the reason
ParseError(line, column, reason) ==
    [line |-> line, column |-> column, message |-> reason]

FirstParsed == mode = "parser" /\ pc = "parsed"

\* Well-formed sources of let declarations, print calls and arithmetic
WellFormed ==
    {Script_print_sum, Script_precedence, Script_let_chain, Script_multi,
     Script_redeclare, Script_div_zero, Script_undefined, Script_print_then_fail,
     Script_empty, Expr2(id_x, <<"+">>, <<"3">>)}

AllFreedOnce == heap.live = <<>> /\ heap.bad_free = 0

\* C15: when no allocation fails and parser_parse returns NULL for a syntax
\* error, at whatever depth (inside parentheses, in the value of a let, in
\* the argument of a print, in a right operand, in a later statement), every
\* AST node and every copy of a name that the parse allocated has been freed
\* exactly once by then.
C15_NoLeak ==
    (FirstParsed /\ heap.fail_at = 0 /\ ast = NULL) => AllFreedOnce

\* parser_parse has failed inside the parentheses of the right operand of a
\* '*', after it had allocated the Program, the left operand, the copies of
\* the name x and the Identifier.
C15_Witness ==
    /\ FirstParsed
    /\ heap.fail_at = 0
    /\ ast = NULL
    /\ source = Script_bad_paren
    /\ heap.calls = 5
    /\ AllFreedOnce

NodeTypes ==
    {"AST_NUMBER", "AST_IDENTIFIER", "AST_BINARY_OP", "AST_LET_DECL",
     "AST_PRINT_CALL", "AST_PROGRAM"}

\* The allocation of an ASTNode failed during the first parser_parse.
NodeAllocationFailed ==
    FirstParsed /\ heap.failed # NULL /\ heap.failed.type \in NodeTypes

\* C16, as stated: when the allocation of any AST node fails during parsing,
\* parser_parse returns NULL with the error flag set, and every node built
\* before the failing constructor call is released, the left and the right
\* operand handed to a failing ast_create_binary_op included.  Refuted:
\* parse_expression and parse_term release neither operand.
C16_AsStated ==
    NodeAllocationFailed =>
        /\ ast = NULL
        /\ parser_has_error(parser) # 0
        /\ AllFreedOnce

\* The same without the failures of ast_create_binary_op
C16_OtherNodes ==
    (NodeAllocationFailed /\ heap.failed.type # "AST_BINARY_OP") =>
        /\ ast = NULL
        /\ parser_has_error(parser) # 0
        /\ AllFreedOnce

PrintCallPaths ==
    {log[k].path : k \in {j \in Where("enter") : log[j].arg = "AST_PRINT_CALL"}}

\* The printf events of the PrintCall at path p
LinesOf(p) == {h \in Where("print") : log[h].path = p}

\* The argument of the PrintCall at path p has been evaluated without error.
ArgumentEvaluated(p) ==
    Exited(Append(p, 1)) /\ ~FailedUnder(Append(p, 1))

\* C18: stdout grows by exactly the lines of the printf calls, in the order
\* in which they were made, and each of them is made by a PrintCall.  A
\* PrintCall that has returned after its argument evaluated without error
\* has written exactly one line, the value of the argument, as its last step
\* and has returned that value; a PrintCall whose argument failed has
\* written nothing and has returned 0.0 with the error still set.
C18_PrintLines ==
    /\ log # <<>> => out = before.out \o PrintedLines
    /\ \A h \in Where("print") : log[h].path \in PrintCallPaths
    /\ \A p \in PrintCallPaths :
          Exited(p) =>
              IF ArgumentEvaluated(p)
              THEN /\ Cardinality(LinesOf(p)) = 1
                   /\ \A h \in LinesOf(p) :
                         /\ log[h].arg = ExitValue(Append(p, 1))
                         /\ log[h + 1] = Event("exit", p, log[h].arg)
              ELSE /\ LinesOf(p) = {}
                   /\ ExitValue(p) = Zero
                   /\ FailedUnder(p)
                   /\ pc # "cleared" => interpreter_has_error # 0

\* main has run "print(1); let x = 2; print(x / 0); print(3);": one line for
\* the first PrintCall, none for the one whose argument failed.
C18_Witness ==
    /\ mode = "main"
    /\ pc = "done"
    /\ source = Script_print_then_fail
    /\ out = <<Line(Num(1))>>
    /\ PrintCallPaths = {<<1>>, <<3>>}
    /\ ~ArgumentEvaluated(<<3>>)
    /\ exit_code = 1

\* C19, as stated: the error state goes back to CLEAR only through
\* interpreter_clear_error called by the top-level caller; interpret itself
\* never clears it, so that an error set by one top-level call is still
\* reported during and after a later call of interpret made without a reset
\* in between.  Refuted: interpret calls interpreter_clear_error itself, past
\* its two NULL checks.
C19_AsStated ==
    (mode = "test" /\ pc = "call2" /\ before.interpreter_error # 0) =>
        interpreter_has_error # 0

\* C20, as stated: ast_destroy(root) frees every node that root reaches, with
\* the names the nodes own and the statements array of a Program, exactly
\* once, for every variant, the IfStmt included; ast_destroy of NULL, also of
\* the NULL else branch of an IfStmt, does nothing.  Refuted: the switch of
\* ast_destroy has no case for an IfStmt, whose children stay allocated.
C20_AsStated ==
    (mode = "ast" /\ pc = "destroyed") => AllFreedOnce

\* The same for the trees without an IfStmt
C20_OtherVariants ==
    (mode = "ast" /\ pc = "destroyed" /\ ast.type # "AST_IF_STMT") =>
        AllFreedOnce

---------------------------------------------------------------------------
(***************************************************************************)
(* The lexer: what the calls of lexer_next_token returned                  *)
(***************************************************************************)
\* The character of the source at a position of the Lexer, NUL at the end
CharAt(p) == IF p < Len(source) THEN source[p + 1] ELSE NUL

\* Where the token of a call starts: the position after the white space
Start(call) == lexer_skip_whitespace(call.was).position

\* The Lexer after the i-th call
After(i) == IF i < Len(log) THEN log[i + 1].was ELSE lexer

\* The characters the token of the i-th call took
Consumed(i) == After(i).position - Start(log[i])

\* The types of the tokens returned before the first TOKEN_EOF
TypesOf(calls) ==
    [i \in 1..Len(SelectSeq(calls, LAMBDA c : c.token.type # "TOKEN_EOF"))
        |-> calls[i].token.type]

LexedAll == mode = "lexer" /\ EofTokens >= 1

Lexed(text, types) == (source = text /\ LexedAll) => TypesOf(log) = types

TwoCharOperator(c) ==
    CASE c = "=" -> "TOKEN_EQUAL"
      [] c = ">" -> "TOKEN_GREATER_EQUAL"
      [] c = "<" -> "TOKEN_LESS_EQUAL"
      [] c = "!" -> "TOKEN_NOT_EQUAL"

OneCharOperator(c) ==
    CASE c = "=" -> "TOKEN_ASSIGN"
      [] c = ">" -> "TOKEN_GREATER"
      [] c = "<" -> "TOKEN_LESS"
      [] c = "!" -> "TOKEN_ERROR"

\* C21: a token that starts with '=', '>', '<' or '!' is the two-character
\* operator and takes two characters when a '=' follows at once, and is
\* ASSIGN, GREATER, LESS or ERROR and takes one character otherwise; so
\* "===" is EQUAL ASSIGN, "====" is EQUAL EQUAL, "!==" is NOT_EQUAL ASSIGN
\* and ">=<=" is GREATER_EQUAL LESS_EQUAL.
C21_GreedyOperators ==
    mode = "lexer" =>
        /\ \A i \in 1..Len(log) :
              LET at == Start(log[i])
              IN  CharAt(at) \in OperatorChars =>
                      IF CharAt(at + 1) = "="
                      THEN /\ log[i].token.type = TwoCharOperator(CharAt(at))
                           /\ Consumed(i) = 2
                      ELSE /\ log[i].token.type = OneCharOperator(CharAt(at))
                           /\ Consumed(i) = 1
        /\ Lexed(<<"=", "=", "=">>, <<"TOKEN_EQUAL", "TOKEN_ASSIGN">>)
        /\ Lexed(<<"=", "=", "=", "=">>, <<"TOKEN_EQUAL", "TOKEN_EQUAL">>)
        /\ Lexed(<<"!", "=", "=">>, <<"TOKEN_NOT_EQUAL", "TOKEN_ASSIGN">>)
        /\ Lexed(<<">", "=", "<", "=">>,
                 <<"TOKEN_GREATER_EQUAL", "TOKEN_LESS_EQUAL">>)

C21_Witness ==
    /\ LexedAll
    /\ source = <<"!", "=", "=">>
    /\ TypesOf(log) = <<"TOKEN_NOT_EQUAL", "TOKEN_ASSIGN">>
    /\ Consumed(1) = 2

\* The newlines among the first p characters of the source, and the index
\* of the last of them (0 when there is none)
NewlinesBefore(p) == {k \in 1..p : source[k] = "\n"}
LastNewlineBefore(p) ==
    IF NewlinesBefore(p) = {} THEN 0
    ELSE CHOOSE k \in NewlinesBefore(p) : \A j \in NewlinesBefore(p) : j <= k

\* C22: every returned token carries the position of its first character:
\* its line is 1 plus the newlines before that character, its column 1 plus
\* the characters between the preceding newline, or the start of the
\* source, and that character.
C22_TokenPosition ==
    mode = "lexer" =>
        \A i \in 1..Len(log) :
            LET at == Start(log[i])
            IN  /\ log[i].token.line = 1 + Cardinality(NewlinesBefore(at))
                /\ log[i].token.column = 1 + (at - LastNewlineBefore(at))

C22_Witness ==
    /\ LexedAll
    /\ source = <<"a", "\n", "\n", " ", " ", "@", "b", "\r", "\n", "#", "\n">>
    /\ log[2].token.type = "TOKEN_ERROR"
    /\ log[2].token.line = 3 /\ log[2].token.column = 3
    /\ log[3].token.type = "TOKEN_IDENTIFIER"
    /\ log[3].token.line = 3 /\ log[3].token.column = 4
    /\ log[4].token.line = 4 /\ log[4].token.column = 1

\* C23: a call made after lexer_next_token has returned TOKEN_EOF returns
\* TOKEN_EOF again, at the same line and column, and leaves the position,
\* line and column of the Lexer as they were.
C23_EofAgain ==
    mode = "lexer" =>
        \A i \in 1..Len(log) : \A j \in (i + 1)..Len(log) :
            log[i].token.type = "TOKEN_EOF" =>
                /\ log[j].token = log[i].token
                /\ After(j).position = log[j].was.position
                /\ After(j).line = log[j].was.line
                /\ After(j).column = log[j].was.column
                /\ After(j) = After(i)

C23_Witness ==
    /\ mode = "lexer"
    /\ source = <<"a", "\n", " ">>
    /\ Len(log) = 2 + MaxEofCalls
    /\ log[2].token.type = "TOKEN_EOF"
    /\ log[Len(log)].token = log[2].token
    /\ log[2].token.line = 2 /\ log[2].token.column = 2

\* C24: with n the length of the source, a call made before the end of the
\* input moves the position on by at least one character, the position
\* never exceeds n, a call made at the end returns TOKEN_EOF, and the
\* tokens returned that are not TOKEN_EOF are at most n.
C24_LexerTerminates ==
    mode = "lexer" =>
        /\ \A i \in 1..Len(log) :
              /\ log[i].was.position < Len(source) =>
                     After(i).position >= log[i].was.position + 1
              /\ log[i].was.position = Len(source) =>
                     log[i].token.type = "TOKEN_EOF"
              /\ After(i).position <= Len(source)
        /\ lexer.position <= Len(source)
        /\ lexer.length = Len(source)
        /\ Len(SelectSeq(log, LAMBDA c : c.token.type # "TOKEN_EOF"))
               <= Len(source)

C24_Witness ==
    /\ LexedAll
    /\ source = <<"&", "=", "1">>
    /\ Len(TypesOf(log)) = Len(source)
    /\ lexer.position = Len(source)

\* The characters that start a token, and those lexer_skip_whitespace skips
TokenStarters ==
    Digits \cup Letters
    \cup {"_", "+", "-", "*", "/", "=", ">", "<", "(", ")", ";"}
WhiteSpace == {" ", "\t", "\n", "\r", "\f"}

\* C25: a character that starts no token, a lone '!' included, gives one
\* TOKEN_ERROR that takes that character only, and the lexer goes on with
\* the character after it: "&&" gives two TOKEN_ERROR at columns 1 and 2,
\* "!a" gives TOKEN_ERROR and then IDENTIFIER a.
C25_ErrorPerCharacter ==
    mode = "lexer" =>
        /\ \A i \in 1..Len(log) :
              LET c == CharAt(Start(log[i]))
              IN  (c \notin TokenStarters \cup WhiteSpace \cup {NUL, "!"}
                   \/ (c = "!" /\ CharAt(Start(log[i]) + 1) # "=")) =>
                      /\ log[i].token.type = "TOKEN_ERROR"
                      /\ log[i].token.text = NULL_TEXT
                      /\ Consumed(i) = 1
                      /\ After(i).current_char = CharAt(Start(log[i]) + 1)
        /\ (source = <<"&", "&">> /\ LexedAll) =>
              /\ TypesOf(log) = <<"TOKEN_ERROR", "TOKEN_ERROR">>
              /\ log[1].token.column = 1
              /\ log[2].token.column = 2
        /\ (source = <<"!", "a">> /\ LexedAll) =>
              /\ TypesOf(log) = <<"TOKEN_ERROR", "TOKEN_IDENTIFIER">>
              /\ log[2].token.text = <<"a">>

C25_Witness ==
    /\ LexedAll
    /\ source = <<"&", "&">>
    /\ TypesOf(log) = <<"TOKEN_ERROR", "TOKEN_ERROR">>
    /\ log[2].token.column = 2

\* The characters of a kind that stand in a row in the source from position
\* p on
RECURSIVE RunLength(_, _)
RunLength(p, kind) ==
    IF CharAt(p) \in kind THEN 1 + RunLength(p + 1, kind) ELSE 0

IdentifierChars == Digits \cup Letters \cup {"_"}

\* The kind of run a token that starts with c is read from
RunKind(c) == IF c \in Digits THEN Digits ELSE IdentifierChars

\* The first BufferCap characters of the run that starts at position p
Capped(p) == SubSeq(source, p + 1, p + BufferCap)

\* C26 as the specification states it: a run of digits, or of identifier
\* characters, longer than 63 characters gives one token built from its
\* first 63 characters, and the rest of the run is consumed with that token.
C26_AsStated ==
    mode = "lexer" =>
        \A i \in 1..Len(log) :
            LET at == Start(log[i])
                kind == RunKind(CharAt(at))
            IN  (CharAt(at) \in Digits \cup Letters \cup {"_"}
                 /\ RunLength(at, kind) > BufferCap) =>
                    /\ IF kind = Digits
                       THEN /\ log[i].token.type = "TOKEN_NUMBER"
                            /\ log[i].token.number = atof(Capped(at))
                       ELSE /\ log[i].token.type = "TOKEN_IDENTIFIER"
                            /\ log[i].token.text = Capped(at)
                    /\ Consumed(i) = RunLength(at, kind)

\* What the code does instead: the token takes the first 63 characters and
\* no more, and the next call starts inside the same run.
C26_ExcessLexedAgain ==
    mode = "lexer" =>
        \A i \in 1..Len(log) :
            LET at == Start(log[i])
                kind == RunKind(CharAt(at))
            IN  (CharAt(at) \in Digits \cup Letters \cup {"_"}
                 /\ RunLength(at, kind) > BufferCap) =>
                    /\ IF kind = Digits
                       THEN /\ log[i].token.type = "TOKEN_NUMBER"
                            /\ log[i].token.number = atof(Capped(at))
                       ELSE /\ log[i].token.type = "TOKEN_IDENTIFIER"
                            /\ log[i].token.text = Capped(at)
                    /\ Consumed(i) = BufferCap
                    /\ After(i).position = at + BufferCap
                    /\ i < Len(log) =>
                           /\ Start(log[i + 1]) = at + BufferCap
                           /\ log[i + 1].token.type \in
                                  {"TOKEN_NUMBER", "TOKEN_IDENTIFIER"}

\* C27 as stated: no call writes outside the 64 bytes of its buffer, the
\* write of the terminating NUL included: the bytes written, buffer[0] up
\* to buffer[pos], are at most 64, and no build stops at such a write.
C27_AsStated ==
    mode = "lexer" =>
        /\ \A i \in 1..Len(log) : log[i].written <= BufferSize
        /\ pc # "crashed"

\* Where it holds: lexer_read_identifier stays inside its buffer, and so
\* does lexer_read_number unless its 63 digits are followed by '.' and a
\* digit.
C27_OtherRuns ==
    mode = "lexer" =>
        \A i \in 1..Len(log) :
            LET at == Start(log[i])
            IN  log[i].written > BufferSize =>
                    /\ RunLength(at, Digits) = BufferCap
                    /\ CharAt(at + BufferCap) = "."
                    /\ CharAt(at + BufferCap + 1) \in Digits
                    /\ log[i].written = BufferSize + 1

\* C30: a NUMBER token holds a '.' only if a digit stands right after it in
\* the source; a '.' after the digits that no digit follows ends the token
\* before it and is the TOKEN_ERROR of the next call: "1." gives NUMBER 1,
\* ERROR and "1.5.2" gives NUMBER 1.5, ERROR, NUMBER 2.
C30_DecimalPoint ==
    mode = "lexer" =>
        /\ \A i \in 1..Len(log) :
              LET at == Start(log[i])
                  digits == RunLength(at, Digits)
              IN  CharAt(at) \in Digits =>
                      /\ log[i].token.type = "TOKEN_NUMBER"
                      /\ \A q \in at..(After(i).position - 1) :
                            CharAt(q) = "." => CharAt(q + 1) \in Digits
                      /\ (digits <= BufferCap /\ CharAt(at + digits) = "."
                          /\ CharAt(at + digits + 1) \notin Digits) =>
                             /\ Consumed(i) = digits
                             /\ i < Len(log) =>
                                    /\ Start(log[i + 1]) = at + digits
                                    /\ log[i + 1].token.type = "TOKEN_ERROR"
                                    /\ Consumed(i + 1) = 1
        /\ (source = <<"1", ".">> /\ LexedAll) =>
              /\ TypesOf(log) = <<"TOKEN_NUMBER", "TOKEN_ERROR">>
              /\ log[1].token.number = Num(1)
        /\ (source = <<"1", ".", "5", ".", "2">> /\ LexedAll) =>
              /\ TypesOf(log) = <<"TOKEN_NUMBER", "TOKEN_ERROR", "TOKEN_NUMBER">>
              /\ log[1].token.number = Rat(15, 10)
              /\ log[3].token.number = Num(2)

C30_Witness ==
    /\ LexedAll
    /\ source = <<"1", ".", "5", ".", "2">>
    /\ TypesOf(log) = <<"TOKEN_NUMBER", "TOKEN_ERROR", "TOKEN_NUMBER">>
    /\ log[1].token.number = Rat(15, 10)
    /\ Consumed(1) = 3

---------------------------------------------------------------------------
(***************************************************************************)
(* The parser: its statement loop and the memory of its tokens             *)
(***************************************************************************)
\* The tokens of a source before its TOKEN_EOF
RECURSIVE CountTokens(_)
CountTokens(lx) ==
    IF lexer_next_token(lx).token.type = "TOKEN_EOF" THEN 0
    ELSE 1 + CountTokens(lexer_next_token(lx).lexer)

\* The tokens consumed before the k-th iteration of the statement loop
AdvancesBefore(k) == IF k = 1 THEN 0 ELSE parser.iterations[k - 1].advances

ParserCalled == mode = "parser" /\ pc # "start"

\* C28: every iteration of the statement loop of parser_parse consumes at
\* least one token or ends with the error flag set, only the last iteration
\* ends with the flag set, the iterations are at most as many as the tokens
\* of the source, and parser_parse returns at TOKEN_EOF or with the flag
\* set.
C28_ParserTerminates ==
    ParserCalled =>
        /\ \A k \in 1..Len(parser.iterations) :
              /\ \/ parser.iterations[k].advances >= AdvancesBefore(k) + 1
                 \/ parser.iterations[k].has_error # 0
              /\ parser.iterations[k].has_error # 0 =>
                     k = Len(parser.iterations)
        /\ Len(parser.iterations) <= CountTokens(lexer_create(source))
        /\ parser.advances <= CountTokens(lexer_create(source))
        /\ \/ parser_match(parser, "TOKEN_EOF")
           \/ parser.has_error # 0

C28_Witness ==
    /\ ParserCalled
    /\ pc = "parsed"
    /\ heap.fail_at = 0
    /\ Len(parser.iterations) = 3
    /\ parser.iterations[3].has_error # 0
    /\ parser.iterations[2].advances > parser.iterations[1].advances
    /\ ~parser_match(parser, "TOKEN_EOF")

\* The times a block occurs in a sequence of blocks
Times(blocks, block) == Cardinality({i \in 1..Len(blocks) : blocks[i] = block})

\* C29: of the token texts handed to the Parser none is passed to free
\* twice, none is passed to free that was not handed to it, none is read
\* after it was freed, the texts of the two tokens the Parser holds are not
\* freed before parser_destroy, and after parser_destroy every text handed
\* to the Parser has been freed exactly once.
C29_TokenTexts ==
    ParserCalled =>
        /\ \A i \in 1..Len(parser.texts.freed) :
              /\ Times(parser.texts.freed, parser.texts.freed[i]) = 1
              /\ Times(parser.texts.allocated, parser.texts.freed[i]) = 1
        /\ parser.texts.stale_reads = 0
        /\ pc # "destroyed" =>
              /\ parser.current_token.text # NULL_TEXT =>
                     ~IsFreed(parser.texts, TextBlock(parser.current_token))
              /\ parser.lookahead_token.text # NULL_TEXT =>
                     ~IsFreed(parser.texts, TextBlock(parser.lookahead_token))
        /\ pc = "destroyed" =>
              /\ \A i \in 1..Len(parser.texts.allocated) :
                    Times(parser.texts.freed, parser.texts.allocated[i]) = 1
              /\ parser.current_token.text = NULL_TEXT
              /\ parser.lookahead_token.text = NULL_TEXT

C29_Witness ==
    /\ mode = "parser"
    /\ pc = "destroyed"
    /\ parser.has_error # 0
    /\ Len(parser.texts.allocated) >= 3
    /\ Len(parser.texts.freed) = Len(parser.texts.allocated)
    /\ parser.advances < CountTokens(lexer_create(source))

=============================================================================
